---- MODULE Spec2Model ----
(***************************************************************************)
(* NutellaDB: the persistent B-tree (package btree), one JSON file per     *)
(* node plus metadata.json, and the Database wrapper that opens and closes *)
(* it.  Keys are strings compared bytewise in the source; the model uses   *)
(* integers under < , an order-isomorphic image of a finite set of strings.*)
(* Sequences are 1-based here and 0-based in Go: every index variable      *)
(* keeps its Go value and is shifted by one at the point of use.           *)
(***************************************************************************)
EXTENDS Integers, Sequences, FiniteSets, TLC

\* ---------------------------------------------------------------- bounds
\* the order t of the tree (NewBTree rejects t < 3)
Order == 3
\* sizes n of the trees a run starts from: keys 1..n inserted in ascending
\* order into a new tree (one leaf; two levels; a root of two keys; three
\* levels; three levels under a root of two keys)
LeafKeys == 4
SmallKeys == 6
MidKeys == 9
DeepKeys == 19
WideKeys == 28
\* Insert, Update, Delete, RepairTree and NewBTree calls per run
MaxOps == 2
\* values stored
MaxVal == 2
\* node files removed behind the program's back per run
MaxFaults == 1

InitSizes == {0, LeafKeys, SmallKeys, MidKeys, DeepKeys, WideKeys}
Vals == 1..MaxVal
NoVal == 0

VARIABLES
    disk,        \* page_<id>.json files of the page directory: id -> Node
    metaDisk,    \* metadata.json: [root_id, next_id]
    RootID,      \* BTree.RootID of the open handle
    NextID,      \* BTree.NextID of the open handle
    isOpen,      \* whether a BTree handle is open
    pathsAgree,  \* whether "files/<DBID>/pages" names the page directory PageDir
    last,        \* the last call: its name, arguments and results
    stored,      \* history: key -> value last stored and not deleted since (NoVal: none)
    beforeClose, \* history: Find's answers right before the last Close
    budget,      \* calls left (bounds the runs that start from a deep tree)
    faults,      \* node files removed behind the program's back so far
    repo,        \* a repository: working directory, .nutella objects, snapshots.json
    codec,       \* a delta under construction, on the wire, and as decoded
    cache,       \* the LRU cache: CacheMap, LruList, MaxSize
    db           \* a Database: manifest.json, its manifest, collections, page directories

vars == <<disk, metaDisk, RootID, NextID, isOpen, pathsAgree, last, stored,
          beforeClose, budget, faults, repo, codec, cache, db>>

\* the variables of the subsystems other than the B-tree, and the value
\* each has while its subsystem is not in use
otherVars == <<repo, codec, cache, db>>
btreeVars == <<disk, metaDisk, RootID, NextID, isOpen, pathsAgree, last, stored,
               beforeClose, budget, faults>>
Unused == <<>>

\* ------------------------------------------------------- Go slice helpers
\* s[:n]
SliceTo(s, n) == SubSeq(s, 1, n)
\* s[n:]
SliceFrom(s, n) == SubSeq(s, n + 1, Len(s))
\* append(s[:i], s[i+1:]...)
Cut(s, i) == SliceTo(s, i) \o SliceFrom(s, i + 1)
\* s = append(s, zero); copy(s[i+1:], s[i:]); s[i] = x
InsertAt(s, i, x) == SliceTo(s, i) \o <<x>> \o SliceFrom(s, i)
\* copy(make([]int, n), s): s cut or zero-padded to n entries
CopyInto(n, s) == [j \in 1..n |-> IF j <= Len(s) THEN s[j] ELSE 0]

KV(k, v) == [key |-> k, value |-> v]
MkNode(id, leaf, ks, cs) == [id |-> id, isLeaf |-> leaf, keys |-> ks, children |-> cs]

\* --------------------------------------------------------------- node I/O
FileExists(d, id) == id \in DOMAIN d

saveNode(d, node) ==
    [x \in DOMAIN d \cup {node.id} |-> IF x = node.id THEN node ELSE d[x]]

deleteNode(d, id) == [x \in DOMAIN d \ {id} |-> d[x]]

\* loadNode wraps the read error with fmt.Errorf("...%v"), so os.IsNotExist
\* on the error it returns is false for a missing file.
LoadErrIsNotExist == FALSE

\* loadNodeSafe: "node" (loaded), "nil" (missing, tolerated) or "err"
loadNodeSafe(d, id) ==
    IF FileExists(d, id) THEN "node"
    ELSE IF LoadErrIsNotExist THEN "nil" ELSE "err"

\* nodeExists stats files/<DBID>/pages/page_<id>.json, not PageDir/page_<id>.json
nodeExists(d, id) == pathsAgree /\ FileExists(d, id)

\* ---------------------------------------------------------------- scans
RECURSIVE ScanUp(_, _, _)
\* i := from; for i < len(keys) && key > keys[i].Key { i++ }
ScanUp(ks, key, i) ==
    IF i < Len(ks) /\ key > ks[i + 1].key THEN ScanUp(ks, key, i + 1) ELSE i

RECURSIVE ScanDown(_, _, _)
\* for i >= 0 && key < keys[i].Key { i-- }
ScanDown(ks, key, i) ==
    IF i >= 0 /\ key < ks[i + 1].key THEN ScanDown(ks, key, i - 1) ELSE i

\* ----------------------------------------------------------------- Find
RECURSIVE findInNode(_, _, _)
findInNode(d, node, key) ==
    LET i == ScanUp(node.keys, key, 0) IN
    IF i < Len(node.keys) /\ key = node.keys[i + 1].key
    THEN [found |-> TRUE, value |-> node.keys[i + 1].value, st |-> "ok"]
    ELSE IF node.isLeaf
    THEN [found |-> FALSE, value |-> NoVal, st |-> "ok"]
    ELSE IF i >= Len(node.children)
    THEN [found |-> FALSE, value |-> NoVal, st |-> "panic"]
    ELSE IF ~FileExists(d, node.children[i + 1])
    THEN [found |-> FALSE, value |-> NoVal, st |-> "err"]
    ELSE findInNode(d, d[node.children[i + 1]], key)

Find(d, root, key) ==
    IF ~FileExists(d, root)
    THEN [found |-> FALSE, value |-> NoVal, st |-> "err"]
    ELSE findInNode(d, d[root], key)

RECURSIVE findAllNodes(_, _)
RECURSIVE findAllChildren(_, _, _)
\* the second loop of findAllNodes, from child index j on
findAllChildren(d, cs, j) ==
    IF j >= Len(cs) THEN [kvs |-> <<>>, st |-> "ok"]
    ELSE IF ~FileExists(d, cs[j + 1]) THEN [kvs |-> <<>>, st |-> "panic"]
    ELSE LET a == findAllNodes(d, d[cs[j + 1]]) IN
         IF a.st # "ok" THEN a
         ELSE LET b == findAllChildren(d, cs, j + 1) IN
              [kvs |-> a.kvs \o b.kvs, st |-> b.st]

findAllNodes(d, node) ==
    IF node.isLeaf THEN [kvs |-> node.keys, st |-> "ok"]
    ELSE LET r == findAllChildren(d, node.children, 0) IN
         [kvs |-> node.keys \o r.kvs, st |-> r.st]

FindAll(d, root) ==
    IF ~FileExists(d, root) THEN [kvs |-> <<>>, st |-> "ok"]
    ELSE findAllNodes(d, d[root])

\* ------------------------------------------------------------- metadata
\* a handle: [disk, root, next, meta]
Handle(d, r, n, m) == [disk |-> d, root |-> r, next |-> n, meta |-> m]

saveMetadata(s) == [s EXCEPT !.meta = [root_id |-> s.root, next_id |-> s.next]]

allocateNodeID(s) == [id |-> s.next, s |-> [s EXCEPT !.next = @ + 1]]

\* --------------------------------------------------------------- Insert
\* a splitChild that puts the new node's id before the child's
splitChildBefore(s, parent, index, child) ==
    LET a == allocateNodeID(s)
        t == Order
        newChild == MkNode(a.id, child.isLeaf, SliceFrom(child.keys, t),
                           IF child.isLeaf THEN <<>> ELSE SliceFrom(child.children, t))
        child1 == [child EXCEPT !.keys = SliceTo(@, t - 1),
                                !.children = IF child.isLeaf THEN @ ELSE SliceTo(@, t)]
        parent1 == [parent EXCEPT !.children = InsertAt(@, index, a.id),
                                  !.keys = InsertAt(@, index, child.keys[t])]
    IN [s |-> [a.s EXCEPT !.disk = saveNode(saveNode(saveNode(@, parent1), child1),
                                            newChild)],
        parent |-> parent1, st |-> "ok"]

\* copy(make([]KeyValue, n), s): the first n of s, empty entries after them
CopyKeysInto(n, s) == [j \in 1..n |-> IF j <= Len(s) THEN s[j] ELSE KV(0, NoVal)]

splitChild(s, parent, index, child) ==
    LET a == allocateNodeID(s)
        t == Order
    IN
    IF Len(child.keys) < t \/ (~child.isLeaf /\ Len(child.children) < t)
       \/ index + 1 > Len(parent.children) \/ index > Len(parent.keys)
    THEN [s |-> a.s, parent |-> parent, st |-> "panic"]
    ELSE
    LET newChild == MkNode(a.id, child.isLeaf,
                           CopyKeysInto(t - 1, SliceFrom(child.keys, t)),
                           IF child.isLeaf THEN <<>>
                           ELSE CopyInto(t, SliceFrom(child.children, t)))
        middleKey == child.keys[t]
        child1 == [child EXCEPT !.keys = SliceTo(@, t - 1),
                                !.children = IF child.isLeaf THEN @ ELSE SliceTo(@, t)]
        parent1 == [parent EXCEPT !.children = InsertAt(@, index + 1, a.id),
                                  !.keys = InsertAt(@, index, middleKey)]
        d1 == saveNode(saveNode(saveNode(a.s.disk, parent1), child1), newChild)
    IN [s |-> [a.s EXCEPT !.disk = d1], parent |-> parent1, st |-> "ok"]

RECURSIVE insertNonFull(_, _, _, _)
insertNonFull(s, node, key, value) ==
    LET i == ScanDown(node.keys, key, Len(node.keys) - 1) + 1 IN
    IF i > 0 /\ i <= Len(node.keys) /\ node.keys[i].key = key
    THEN [s |-> [s EXCEPT !.disk = saveNode(@, [node EXCEPT !.keys[i].value = value])],
          st |-> "ok"]
    ELSE IF node.isLeaf
    THEN [s |-> [s EXCEPT !.disk =
                    saveNode(@, [node EXCEPT !.keys = InsertAt(@, i, KV(key, value))])],
          st |-> "ok"]
    ELSE IF i >= Len(node.children) THEN [s |-> s, st |-> "panic"]
    ELSE IF ~FileExists(s.disk, node.children[i + 1]) THEN [s |-> s, st |-> "err"]
    ELSE
    LET child == s.disk[node.children[i + 1]] IN
    IF Len(child.keys) = 2 * Order - 1
    THEN LET sp == splitChild(s, node, i, child)
             n1 == sp.parent
         IN
         IF sp.st # "ok" THEN [s |-> sp.s, st |-> sp.st]
         ELSE IF key > n1.keys[i + 1].key
         THEN IF ~FileExists(sp.s.disk, n1.children[i + 2])
              THEN [s |-> sp.s, st |-> "err"]
              ELSE insertNonFull(sp.s, sp.s.disk[n1.children[i + 2]], key, value)
         ELSE IF key = n1.keys[i + 1].key
         THEN [s |-> [sp.s EXCEPT !.disk =
                         saveNode(@, [n1 EXCEPT !.keys[i + 1].value = value])],
               st |-> "ok"]
         ELSE insertNonFull(sp.s, sp.s.disk[n1.children[i + 1]], key, value)
    ELSE insertNonFull(s, child, key, value)

Insert(s, key, value) ==
    IF ~FileExists(s.disk, s.root) THEN [s |-> s, st |-> "err"]
    ELSE
    LET root == s.disk[s.root] IN
    IF Len(root.keys) = 2 * Order - 1
    THEN LET a == allocateNodeID(s)
             newRoot == MkNode(a.id, FALSE, <<>>, <<root.id>>)
             sp == splitChild(a.s, newRoot, 0, root)
         IN
         IF sp.st = "panic" THEN [s |-> sp.s, st |-> "panic"]
         ELSE LET s1 == [sp.s EXCEPT !.root = newRoot.id]
                  s2 == [s1 EXCEPT !.disk = saveNode(@, sp.parent)]
                  s3 == saveMetadata(s2)
              IN insertNonFull(s3, sp.parent, key, value)
    ELSE insertNonFull(s, root, key, value)

\* --------------------------------------------------------------- Update
RECURSIVE updateInNode(_, _, _, _)
updateInNode(d, node, key, value) ==
    LET i == ScanUp(node.keys, key, 0) IN
    IF i < Len(node.keys) /\ key = node.keys[i + 1].key
    THEN [disk |-> saveNode(d, [node EXCEPT !.keys[i + 1].value = value]),
          updated |-> TRUE, st |-> "ok"]
    ELSE IF node.isLeaf THEN [disk |-> d, updated |-> FALSE, st |-> "ok"]
    ELSE IF i >= Len(node.children) THEN [disk |-> d, updated |-> FALSE, st |-> "panic"]
    ELSE IF ~FileExists(d, node.children[i + 1])
    THEN [disk |-> d, updated |-> FALSE, st |-> "err"]
    ELSE updateInNode(d, d[node.children[i + 1]], key, value)

Update(d, root, key, value) ==
    IF ~FileExists(d, root) THEN [disk |-> d, updated |-> FALSE, st |-> "err"]
    ELSE updateInNode(d, d[root], key, value)

\* --------------------------------------------------------------- Delete
RECURSIVE predDescend(_, _)
\* the loop of getPredecessor, from the loaded node child on
predDescend(d, child) ==
    IF ~child.isLeaf
    THEN IF Len(child.children) = 0 THEN [st |-> "err", kv |-> KV(0, NoVal)]
         ELSE LET childID == child.children[Len(child.children)] IN
              IF ~nodeExists(d, childID)
              THEN IF Len(child.keys) > 0
                   THEN [st |-> "ok", kv |-> child.keys[Len(child.keys)]]
                   ELSE [st |-> "err", kv |-> KV(0, NoVal)]
              ELSE IF ~FileExists(d, childID) THEN [st |-> "err", kv |-> KV(0, NoVal)]
              ELSE predDescend(d, d[childID])
    ELSE IF Len(child.keys) = 0 THEN [st |-> "err", kv |-> KV(0, NoVal)]
    ELSE [st |-> "ok", kv |-> child.keys[Len(child.keys)]]

getPredecessor(d, node, index) ==
    IF index < 0 \/ index >= Len(node.children) THEN [st |-> "err", kv |-> KV(0, NoVal)]
    ELSE LET childID == node.children[index + 1] IN
         IF ~nodeExists(d, childID) THEN [st |-> "err", kv |-> KV(0, NoVal)]
         ELSE IF ~FileExists(d, childID) THEN [st |-> "err", kv |-> KV(0, NoVal)]
         ELSE predDescend(d, d[childID])

\* results of ensureMinKeys and mergeNodes: the disk, the parent as it is
\* in memory afterwards, and "ok", "err" or "panic"
Fix(d, node, st) == [disk |-> d, node |-> node, st |-> st]

\* the repair used all over ensureMinKeys: drop child pointer c and, when
\* len(node.Keys) > k, key k; save the node
DropChild(d, node, c, k) ==
    LET n1 == [node EXCEPT !.children = Cut(@, c),
                           !.keys = IF Len(@) > k THEN Cut(@, k) ELSE @]
    IN Fix(saveNode(d, n1), n1, "ok")

mergeNodes(d, parent, index, left, right) ==
    IF index < 0 \/ index >= Len(parent.keys) THEN Fix(d, parent, "err")
    ELSE IF index + 1 > Len(parent.children) THEN Fix(d, parent, "panic")
    ELSE
    LET left1 == [left EXCEPT
                    !.keys = (@ \o <<parent.keys[index + 1]>>) \o right.keys,
                    !.children = IF left.isLeaf THEN @ ELSE @ \o right.children]
        parent1 == [parent EXCEPT
                    !.keys = Cut(@, index),
                    !.children = IF index + 1 < Len(@) THEN Cut(@, index + 1)
                                 ELSE SliceTo(@, index + 1)]
        d1 == deleteNode(saveNode(saveNode(d, parent1), left1), right.id)
    IN Fix(d1, parent1, "ok")

\* borrow a key from the left sibling ls (lines 326-356)
borrowLeft(d, node, index, child, ls) ==
    IF index - 1 >= Len(node.keys) THEN Fix(d, node, "panic")
    ELSE Fix(saveNode(saveNode(saveNode(d,
                 [node EXCEPT !.keys[index] = ls.keys[Len(ls.keys)]]),
                 [child EXCEPT
                     !.keys = <<node.keys[index]>> \o @,
                     !.children = IF ~child.isLeaf /\ Len(ls.children) > 0
                                  THEN <<ls.children[Len(ls.children)]>> \o @
                                  ELSE @]),
                 [ls EXCEPT
                     !.keys = SliceTo(@, Len(@) - 1),
                     !.children = IF ~child.isLeaf /\ Len(@) > 0
                                  THEN SliceTo(@, Len(@) - 1) ELSE @]),
             [node EXCEPT !.keys[index] = ls.keys[Len(ls.keys)]], "ok")

\* borrow a key from the right sibling rs (lines 376-406)
borrowRight(d, node, index, child, rs) ==
    IF index >= Len(node.keys) THEN Fix(d, node, "panic")
    ELSE Fix(saveNode(saveNode(saveNode(d,
                 [node EXCEPT !.keys[index + 1] = rs.keys[1]]),
                 [child EXCEPT
                     !.keys = Append(@, node.keys[index + 1]),
                     !.children = IF ~child.isLeaf /\ Len(rs.children) > 0
                                  THEN Append(@, rs.children[1]) ELSE @]),
                 [rs EXCEPT
                     !.keys = Tail(@),
                     !.children = IF ~child.isLeaf /\ Len(@) > 0 THEN Tail(@) ELSE @]),
             [node EXCEPT !.keys[index + 1] = rs.keys[1]], "ok")

\* merge with a sibling (lines 409-455)
mergeWithSibling(d, node, index, child) ==
    IF index > 0
    THEN IF ~nodeExists(d, node.children[index])
         THEN IF index < Len(node.children) - 1 /\ nodeExists(d, node.children[index + 2])
              THEN mergeNodes(d, node, index, child, d[node.children[index + 2]])
              ELSE DropChild(d, node, index - 1, index - 1)
         ELSE mergeNodes(d, node, index - 1, d[node.children[index]], child)
    ELSE IF index >= Len(node.children) - 1 \/ ~nodeExists(d, node.children[index + 2])
         THEN DropChild(d, node, index, index)
         ELSE mergeNodes(d, node, index, child, d[node.children[index + 2]])

\* try the right sibling, else merge (lines 359-407)
tryRightSibling(d, node, index, child) ==
    IF index < Len(node.children) - 1 /\ ~nodeExists(d, node.children[index + 2])
    THEN DropChild(d, node, index + 1, index)
    ELSE IF index < Len(node.children) - 1
            /\ Len(d[node.children[index + 2]].keys) >= Order
    THEN borrowRight(d, node, index, child, d[node.children[index + 2]])
    ELSE mergeWithSibling(d, node, index, child)

\* try the left sibling, else the right one (lines 309-357)
tryLeftSibling(d, node, index, child) ==
    IF index > 0 /\ ~nodeExists(d, node.children[index])
    THEN DropChild(d, node, index - 1, index - 1)
    ELSE IF index > 0 /\ Len(d[node.children[index]].keys) >= Order
    THEN borrowLeft(d, node, index, child, d[node.children[index]])
    ELSE tryRightSibling(d, node, index, child)

ensureMinKeys(d, node, index) ==
    IF index < 0 \/ index >= Len(node.children) THEN Fix(d, node, "err")
    ELSE IF ~nodeExists(d, node.children[index + 1])
    THEN DropChild(d, node, index, index)
    ELSE IF Len(d[node.children[index + 1]].keys) >= Order THEN Fix(d, node, "ok")
    ELSE tryLeftSibling(d, node, index, d[node.children[index + 1]])

\* result of deleteFromNode: the disk, the node as it is in memory
\* afterwards, the deleted flag, and "ok", "err" or "panic"
Del(d, node, deleted, st) == [disk |-> d, node |-> node, deleted |-> deleted, st |-> st]

\* the caller's view of a recursive call's result r: its own node, the rest r's
Below(r, node) == Del(r.disk, node, r.deleted, r.st)

\* remove key i and child pointer i from the node and save it
CutKeyAndChild(d, node, i, deleted) ==
    Del(saveNode(d, [node EXCEPT !.keys = Cut(@, i),
                                 !.children = IF i < Len(@) THEN Cut(@, i) ELSE @]),
        [node EXCEPT !.keys = Cut(@, i),
                     !.children = IF i < Len(@) THEN Cut(@, i) ELSE @],
        deleted, "ok")

RECURSIVE deleteFromNode(_, _, _)
RECURSIVE afterEnsureInternal(_, _, _)
RECURSIVE afterEnsureDescend(_, _, _)
RECURSIVE deleteViaPredecessor(_, _, _, _)
RECURSIVE deleteDescend(_, _, _, _)

\* lines 143-156, e the result of ensureMinKeys(node, i)
afterEnsureInternal(e, i, predKey) ==
    IF e.st = "panic" \/ i >= Len(e.node.children) THEN Del(e.disk, e.node, FALSE, "panic")
    ELSE IF loadNodeSafe(e.disk, e.node.children[i + 1]) = "err"
    THEN Del(e.disk, e.node, FALSE, "err")
    ELSE IF loadNodeSafe(e.disk, e.node.children[i + 1]) = "nil"
    THEN Del(saveNode(e.disk, e.node), e.node, TRUE, "ok")
    ELSE Below(deleteFromNode(e.disk, e.disk[e.node.children[i + 1]], predKey), e.node)

\* lines 207-225, e the result of ensureMinKeys(node, i)
afterEnsureDescend(e, i, key) ==
    IF e.st = "panic" THEN Del(e.disk, e.node, FALSE, "panic")
    ELSE IF i >= Len(e.node.children) THEN Del(e.disk, e.node, FALSE, "ok")
    ELSE IF loadNodeSafe(e.disk, e.node.children[i + 1]) = "err"
    THEN Del(e.disk, e.node, FALSE, "err")
    ELSE IF loadNodeSafe(e.disk, e.node.children[i + 1]) = "nil"
    THEN Del(saveNode(e.disk, e.node), e.node, FALSE, "ok")
    ELSE Below(deleteFromNode(e.disk, e.disk[e.node.children[i + 1]], key), e.node)

\* lines 118-156: node already holds the predecessor at key index i
deleteViaPredecessor(d, node, i, predKey) ==
    IF i >= Len(node.children) THEN Del(d, node, FALSE, "panic")
    ELSE IF loadNodeSafe(d, node.children[i + 1]) = "err" THEN Del(d, node, FALSE, "err")
    ELSE IF loadNodeSafe(d, node.children[i + 1]) = "nil"
    THEN CutKeyAndChild(d, node, i, TRUE)
    ELSE IF Len(d[node.children[i + 1]].keys) < Order
    THEN afterEnsureInternal(ensureMinKeys(d, node, i), i, predKey)
    ELSE Below(deleteFromNode(d, d[node.children[i + 1]], predKey), node)

\* lines 159-225: the key is not in this node
deleteDescend(d, node, i, key) ==
    IF node.isLeaf THEN Del(d, node, FALSE, "ok")
    ELSE IF i >= Len(node.children) THEN Del(d, node, FALSE, "ok")
    ELSE IF ~nodeExists(d, node.children[i + 1])
    THEN Del(saveNode(d, [node EXCEPT
                 !.children = Cut(@, i),
                 !.keys = IF Len(node.children) - 1 <= i /\ i > 0 /\ Len(@) >= i
                          THEN SliceTo(@, i - 1) ELSE @]),
             [node EXCEPT
                 !.children = Cut(@, i),
                 !.keys = IF Len(node.children) - 1 <= i /\ i > 0 /\ Len(@) >= i
                          THEN SliceTo(@, i - 1) ELSE @],
             FALSE, "ok")
    ELSE IF loadNodeSafe(d, node.children[i + 1]) = "err" THEN Del(d, node, FALSE, "err")
    ELSE IF loadNodeSafe(d, node.children[i + 1]) = "nil"
    THEN Del(saveNode(d, [node EXCEPT !.children = Cut(@, i),
                                      !.keys = IF Len(@) > i THEN Cut(@, i) ELSE @]),
             [node EXCEPT !.children = Cut(@, i),
                          !.keys = IF Len(@) > i THEN Cut(@, i) ELSE @],
             FALSE, "ok")
    ELSE IF Len(d[node.children[i + 1]].keys) < Order
    THEN afterEnsureDescend(ensureMinKeys(d, node, i), i, key)
    ELSE Below(deleteFromNode(d, d[node.children[i + 1]], key), node)

\* lines 107-116: p the result of getPredecessor(node, i)
replaceByPredecessor(d, node, i, p) ==
    IF p.st # "ok" THEN CutKeyAndChild(d, node, i, TRUE)
    ELSE deleteViaPredecessor(d, [node EXCEPT !.keys[i + 1] = p.kv], i, p.kv.key)

\* deleteFromNode with i the index the scan of lines 83-86 stops at
deleteAt(d, node, key, i) ==
    IF i < Len(node.keys) /\ key = node.keys[i + 1].key
    THEN IF node.isLeaf
         THEN Del(saveNode(d, [node EXCEPT !.keys = Cut(@, i)]),
                  [node EXCEPT !.keys = Cut(@, i)], TRUE, "ok")
         ELSE IF i < Len(node.children) /\ ~nodeExists(d, node.children[i + 1])
         THEN CutKeyAndChild(d, node, i, TRUE)
         ELSE replaceByPredecessor(d, node, i, getPredecessor(d, node, i))
    ELSE deleteDescend(d, node, i, key)

deleteFromNode(d, node, key) == deleteAt(d, node, key, ScanUp(node.keys, key, 0))

\* lines 26-46 of Delete: r the result of deleteFromNode(root, key)
promoteRoot(s, r) ==
    IF r.st # "ok" THEN [s |-> [s EXCEPT !.disk = r.disk], deleted |-> FALSE, st |-> r.st]
    ELSE IF Len(r.node.keys) = 0 /\ ~r.node.isLeaf
    THEN IF Len(r.node.children) = 0
         THEN [s |-> [s EXCEPT !.disk = r.disk], deleted |-> r.deleted, st |-> "panic"]
         ELSE [s |-> saveMetadata([s EXCEPT !.root = r.node.children[1],
                                            !.disk = deleteNode(r.disk, s.root)]),
               deleted |-> r.deleted, st |-> "ok"]
    ELSE [s |-> [s EXCEPT !.disk = r.disk], deleted |-> r.deleted, st |-> "ok"]

\* Delete on a handle s: [s, deleted, st]
Delete(s, key) ==
    IF ~FileExists(s.disk, s.root)
    THEN [s |-> s, deleted |-> FALSE, st |-> IF LoadErrIsNotExist THEN "ok" ELSE "err"]
    ELSE promoteRoot(s, deleteFromNode(s.disk, s.disk[s.root], key))

\* ----------------------------------------------------------- RepairTree
RECURSIVE repairNode(_, _)
RECURSIVE repairChildren(_, _, _)
\* the loop of repairNode from child index j on: the disk after the
\* children's repairs, and the children and keys kept
repairChildren(d, node, j) ==
    IF j >= Len(node.children) THEN [disk |-> d, cs |-> <<>>, ks |-> <<>>]
    ELSE LET childID == node.children[j + 1] IN
         IF nodeExists(d, childID)
         THEN LET d1 == IF FileExists(d, childID) THEN repairNode(d, d[childID]) ELSE d
                  rest == repairChildren(d1, node, j + 1)
              IN [disk |-> rest.disk,
                  cs |-> <<childID>> \o rest.cs,
                  ks |-> (IF j > 0 /\ j - 1 < Len(node.keys)
                          THEN <<node.keys[j]>> ELSE <<>>) \o rest.ks]
         ELSE repairChildren(d, node, j + 1)

repairNode(d, node) ==
    IF ~node.isLeaf
    THEN LET r == repairChildren(d, node, 0)
             n1 == [node EXCEPT !.children = r.cs, !.keys = r.ks,
                                !.isLeaf = (Len(r.cs) = 0)]
         IN saveNode(r.disk, n1)
    ELSE saveNode(d, node)

\* RepairTree: [disk, st]
RepairTree(d, root) ==
    IF ~FileExists(d, root)
    THEN IF LoadErrIsNotExist
         THEN [disk |-> saveNode(d, MkNode(root, TRUE, <<>>, <<>>)), st |-> "ok"]
         ELSE [disk |-> d, st |-> "err"]
    ELSE [disk |-> repairNode(d, d[root]), st |-> "ok"]

\* --------------------------------------------- NewBTree, LoadBTree, Close
\* NewBTree(order, collectionName, pageDir) on a page directory holding the
\* files d and the metadata m
NewBTree(d, m) ==
    LET root == MkNode(1, TRUE, <<>>, <<>>)
        s == Handle(saveNode(d, root), root.id, 2, m)
    IN saveMetadata(s)

\* a LoadBTree that leaves RootID at the first page
LoadBTreeRootOne(d, m) == Handle(d, 1, m.next_id, m)

\* LoadBTree: RootID and NextID as metadata.json holds them
LoadBTree(d, m) == Handle(d, m.root_id, m.next_id, m)

\* BTree.Close, called for every loaded collection by Database.Close
Close(s) == saveMetadata(s)

\* ------------------------------------------------------- the open handle
Cur == Handle(disk, RootID, NextID, metaDisk)

\* Find on the open handle
Lookup(k) == Find(disk, RootID, k)

\* the first missing node file on the way Delete(key) takes from node id
\* (the search for key and, from an internal node holding it, the walk to
\* its predecessor), with the node pointing to it; parent 0: none
RECURSIVE PathMiss(_, _, _, _)
PathMiss(d, id, key, pred) ==
    LET n == d[id]
        i == IF pred THEN Len(n.keys) ELSE ScanUp(n.keys, key, 0)
        hit == ~pred /\ i < Len(n.keys) /\ key = n.keys[i + 1].key
    IN IF n.isLeaf \/ i >= Len(n.children) THEN [parent |-> 0, child |-> 0]
       ELSE IF ~FileExists(d, n.children[i + 1])
            THEN [parent |-> id, child |-> n.children[i + 1]]
            ELSE PathMiss(d, n.children[i + 1], key, pred \/ hit)

MissOnPath(k) ==
    IF FileExists(disk, RootID) THEN PathMiss(disk, RootID, k, FALSE)
    ELSE [parent |-> 0, child |-> 0]

NoMiss == [parent |-> 0, child |-> 0]
NoCall == [op |-> "none", key |-> 0, res |-> FALSE, st |-> "ok", present |-> FALSE,
           miss |-> NoMiss]
Call(op, k, res, st, present) ==
    [op |-> op, key |-> k, res |-> res, st |-> st, present |-> present, miss |-> NoMiss]

NoAnswers == [k \in {} |-> 0]

\* a call spends one unit of the run's budget
Spend == budget' = budget - 1

\* the handle after a call: a panic ends the process, and with it the handle
Becomes(s, st) ==
    /\ disk' = s.disk
    /\ metaDisk' = s.meta
    /\ RootID' = s.root
    /\ NextID' = s.next
    /\ isOpen' = (st # "panic")

DoInsert(k, v) ==
    /\ isOpen /\ budget > 0
    /\ LET r == Insert(Cur, k, v) IN
       /\ Becomes(r.s, r.st)
       /\ last' = Call("Insert", k, r.st = "ok", r.st, Lookup(k).found)
       /\ stored' = [stored EXCEPT ![k] = IF r.st = "ok" THEN v ELSE NoVal]
    /\ Spend
    /\ beforeClose' = NoAnswers
    /\ UNCHANGED <<pathsAgree, faults>>
    /\ UNCHANGED otherVars

DoUpdate(k, v) ==
    /\ isOpen /\ budget > 0
    /\ LET r == Update(disk, RootID, k, v) IN
       /\ Becomes([Cur EXCEPT !.disk = r.disk], r.st)
       /\ last' = Call("Update", k, r.updated, r.st, Lookup(k).found)
       /\ stored' = [stored EXCEPT ![k] = IF r.st # "ok" THEN NoVal
                                          ELSE IF r.updated THEN v ELSE @]
    /\ Spend
    /\ beforeClose' = NoAnswers
    /\ UNCHANGED <<pathsAgree, faults>>
    /\ UNCHANGED otherVars

\* the step of a Delete(k) call with result r
DeleteStep(k, r) ==
    /\ Becomes(r.s, r.st)
    /\ last' = [Call("Delete", k, r.deleted, r.st, Lookup(k).found)
                    EXCEPT !.miss = MissOnPath(k)]

DoDelete(k) ==
    /\ isOpen /\ budget > 0
    /\ DeleteStep(k, Delete(Cur, k))
    /\ stored' = [stored EXCEPT ![k] = NoVal]
    /\ Spend
    /\ beforeClose' = NoAnswers
    /\ UNCHANGED <<pathsAgree, faults>>
    /\ UNCHANGED otherVars

\* Database.Close: BTree.Close of the loaded collection
DoClose ==
    /\ isOpen
    /\ LET s == Close(Cur) IN
       /\ disk' = s.disk /\ metaDisk' = s.meta
       /\ RootID' = s.root /\ NextID' = s.next
    /\ isOpen' = FALSE
    /\ beforeClose' = [k \in DOMAIN stored |-> Lookup(k)]
    /\ last' = Call("Close", 0, TRUE, "ok", FALSE)
    /\ UNCHANGED <<pathsAgree, stored, budget, faults>>
    /\ UNCHANGED otherVars

\* LoadDatabase and GetCollection: LoadBTree on the page directory; the
\* collection name given becomes DBID, which nodeExists builds its path from
DoReopen(agree) ==
    /\ ~isOpen
    /\ pathsAgree' = agree
    /\ LET s == LoadBTree(disk, metaDisk) IN
       /\ disk' = s.disk /\ metaDisk' = s.meta
       /\ RootID' = s.root /\ NextID' = s.next
    /\ isOpen' = TRUE
    /\ last' = Call("Reopen", 0, TRUE, "ok", last.op = "Close")
    /\ UNCHANGED <<stored, beforeClose, budget, faults>>
    /\ UNCHANGED otherVars

\* RepairTree on the open handle
DoRepairTree ==
    /\ isOpen /\ budget > 0
    /\ LET r == RepairTree(disk, RootID) IN
       /\ Becomes([Cur EXCEPT !.disk = r.disk], r.st)
       /\ last' = Call("RepairTree", 0, r.st = "ok", r.st, FALSE)
    /\ Spend
    /\ beforeClose' = NoAnswers
    /\ UNCHANGED <<pathsAgree, stored, faults>>
    /\ UNCHANGED otherVars

\* NewBTree on the page directory as it is, under the collection name
\* given; the caller holds the new handle
DoNewBTree(agree) ==
    /\ budget > 0
    /\ pathsAgree' = agree
    /\ Becomes(NewBTree(disk, metaDisk), "ok")
    /\ last' = Call("NewBTree", 0, TRUE, "ok", FALSE)
    /\ stored' = [k \in DOMAIN stored |-> NoVal]
    /\ Spend
    /\ beforeClose' = NoAnswers
    /\ UNCHANGED faults
    /\ UNCHANGED otherVars

\* a node file disappears from the page directory (not done by the program)
DoRemoveFile(id) ==
    /\ faults < MaxFaults
    /\ id \in DOMAIN disk
    /\ disk' = deleteNode(disk, id)
    /\ faults' = faults + 1
    /\ last' = Call("RemoveFile", id, TRUE, "ok", FALSE)
    /\ UNCHANGED <<metaDisk, RootID, NextID, isOpen, pathsAgree, stored,
                   beforeClose, budget>>
    /\ UNCHANGED otherVars

\* ------------------------------------------------------ specifications
NoMeta == [root_id |-> 0, next_id |-> 0]
NoFiles == [x \in {} |-> 0]

RECURSIVE BuildTree(_, _, _)
\* the handle after Insert(k, 1), Insert(k + 1, 1), ..., Insert(n, 1)
BuildTree(s, k, n) ==
    IF k > n THEN s ELSE BuildTree(Insert(s, k, 1).s, k + 1, n)

\* a handle fresh from NewBTree on an empty page directory, then keys 1..n
TreeOf(n) == BuildTree(NewBTree(NoFiles, NoMeta), 1, n)

InitWith(s, universe, n, b) ==
    /\ disk = s.disk
    /\ metaDisk = s.meta
    /\ RootID = s.root
    /\ NextID = s.next
    /\ isOpen = TRUE
    /\ pathsAgree \in BOOLEAN
    /\ last = NoCall
    /\ stored = [k \in universe |-> IF k <= n THEN 1 ELSE NoVal]
    /\ beforeClose = NoAnswers
    /\ budget = b
    /\ faults = 0
    /\ repo = Unused /\ codec = Unused /\ cache = Unused /\ db = Unused

\* a run starts from a tree the program has grown: NewBTree on an empty
\* page directory, then Insert(1, 1), ..., Insert(n, 1)
Init == \E n \in InitSizes : InitWith(TreeOf(n), 1..(n + 1), n, MaxOps)

Next ==
    \/ \E k \in DOMAIN stored, v \in Vals : DoInsert(k, v)
    \/ \E k \in DOMAIN stored, v \in Vals : DoUpdate(k, v)
    \/ \E k \in DOMAIN stored : DoDelete(k)
    \/ DoClose
    \/ \E agree \in BOOLEAN : DoReopen(agree)

Spec == Init /\ [][Next]_vars

\* Insert, Delete, Close and reopen on a page directory that can lose node
\* files, with RepairTree and NewBTree; a run starts from a tree of two or
\* of three levels
FaultSizes == {MidKeys, DeepKeys}

InitFault == \E n \in FaultSizes : InitWith(TreeOf(n), 1..(n + 1), n, MaxOps)

NextFault ==
    \/ \E k \in DOMAIN stored, v \in Vals : DoInsert(k, v)
    \/ \E k \in DOMAIN stored : DoDelete(k)
    \/ DoClose
    \/ \E agree \in BOOLEAN : DoReopen(agree)
    \/ DoRepairTree
    \/ \E agree \in BOOLEAN : DoNewBTree(agree)
    \/ \E id \in DOMAIN disk : DoRemoveFile(id)

SpecFault == InitFault /\ [][NextFault]_vars

\* ================================================================ claims
\* the nodes reachable from node id through child pointers
RECURSIVE Reach(_, _)
Reach(d, id) ==
    IF ~FileExists(d, id) THEN {}
    ELSE {id} \cup UNION {Reach(d, d[id].children[j]) : j \in 1..Len(d[id].children)}

RECURSIVE SeqCat(_)
SeqCat(ss) == IF ss = <<>> THEN <<>> ELSE Head(ss) \o SeqCat(Tail(ss))

\* every entry of every node of the subtree under node id
RECURSIVE Entries(_, _)
Entries(d, id) ==
    IF ~FileExists(d, id) THEN <<>>
    ELSE d[id].keys
         \o SeqCat([j \in 1..Len(d[id].children) |-> Entries(d, d[id].children[j])])

Ascending(ks) == \A j \in 1..(Len(ks) - 1) : ks[j].key < ks[j + 1].key

NoDup(es) == \A a, b \in 1..Len(es) : es[a].key = es[b].key => a = b

SizeOK(n) == Order - 1 <= Len(n.keys) /\ Len(n.keys) <= 2 * Order - 1

ChildrenOK(n) == ~n.isLeaf => Len(n.children) = Len(n.keys) + 1

KeyOp == last.op \in {"Insert", "Update", "Delete"}

\* C1: every key stored by Insert or a successful Update and not since the
\* target of a Delete is found by Find, with the value last stored (here on
\* a page directory whose node files nodeExists can see)
C1_FindSeesStored ==
    (pathsAgree /\ isOpen) =>
        \A k \in DOMAIN stored :
            stored[k] # NoVal =>
                (Lookup(k).found /\ Lookup(k).value = stored[k])

\* C2: after every successful Insert, Update or Delete every non-root node
\* holds between t-1 and 2t-1 keys, every internal node has one more child
\* than keys, and the keys of every node are strictly ascending
C2_OrderValid ==
    (pathsAgree /\ KeyOp /\ last.st = "ok") =>
        \A id \in Reach(disk, RootID) :
            /\ (id # RootID => SizeOK(disk[id]))
            /\ ChildrenOK(disk[id])
            /\ Ascending(disk[id].keys)

\* C3: after Delete(k) returns without error, Find(k) reports k not found
C3_DeletedIsGone ==
    (pathsAgree /\ last.op = "Delete" /\ last.st = "ok") => ~Lookup(last.key).found

\* C4: Delete(k) of a key that Find finds returns true without error, and
\* a second Delete(k) right after it returns false without error
C4_DeleteTwice ==
    (pathsAgree /\ last.op = "Delete" /\ last.present) =>
        /\ last.st = "ok" /\ last.res
        /\ Delete(Cur, last.key).st = "ok"
        /\ ~Delete(Cur, last.key).deleted

\* C5: a key occurs at most once in the whole tree
C5_NoDuplicateKey == pathsAgree => NoDup(Entries(disk, RootID))

\* C6: FindAll lists the keys in strictly ascending order
C6_FindAllAscending == Ascending(FindAll(disk, RootID).kvs)

Range(f) == {f[j] : j \in 1..Len(f)}

\* C7: when the file of a non-root node on the path of a Delete is
\* missing, Delete returns without error or panic and no saved node points
\* to the missing file any more
C7_DeletePrunesDangling ==
    (pathsAgree /\ last.op = "Delete" /\ last.miss.child # 0) =>
        /\ last.st = "ok"
        /\ \A id \in DOMAIN disk : last.miss.child \notin Range(disk[id].children)

\* C8: after RepairTree returns on a tree that lost node files, every
\* internal node has one more child than keys and every child pointer
\* names an existing node file
C8_RepairedIsValid ==
    (pathsAgree /\ last.op = "RepairTree" /\ last.st = "ok" /\ faults > 0) =>
        \A id \in Reach(disk, RootID) :
            /\ ChildrenOK(disk[id])
            /\ \A c \in Range(disk[id].children) : FileExists(disk, c)

\* C9: after Close and reopening, Find returns for every key the found
\* flag and the value it returned immediately before the Close
C9_ReopenSeesSame ==
    (last.op = "Reopen" /\ last.present) =>
        \A k \in DOMAIN stored :
            /\ Lookup(k).found = beforeClose[k].found
            /\ Lookup(k).value = beforeClose[k].value

\* C9 happens: a tree whose root is not the first page, changed by calls,
\* closed and reopened, with keys Find finds and a key it does not find
C9_Reopened ==
    /\ last.op = "Reopen" /\ last.present
    /\ budget < MaxOps
    /\ RootID # 1
    /\ \E k \in DOMAIN stored : beforeClose[k].found /\ beforeClose[k].value = MaxVal
    /\ \E k \in DOMAIN stored : ~beforeClose[k].found

\* C10: NewBTree on a page directory that holds a tree leaves the node
\* files and the metadata file as they were
C10_NewBTreeKeepsData ==
    [][last'.op = "NewBTree" =>
          /\ \A id \in DOMAIN disk : FileExists(disk', id) /\ disk'[id] = disk[id]
          /\ metaDisk' = metaDisk]_vars


\* ==================================================== delta codec (dbcli)
\* Byte strings are sequences over 0..255.  Go indices are 0-based: every
\* index below keeps its Go value and is shifted by one at the point of use.

\* a copy is emitted for a match of at least this many bytes
MinMatch == 4
\* the longest insert instruction
MaxInsert == 127
\* the copy flag of a command byte
CopyFlag == 128
\* offset and size bytes a copy instruction can carry
OffsetBytes == 4
SizeBytes == 3
\* the size a copy instruction of size 0 stands for
ZeroSize == 65536
\* the length of a delta's header
HeaderLen == 8

RECURSIVE Pow2(_)
Pow2(n) == IF n = 0 THEN 1 ELSE 2 * Pow2(n - 1)

\* cmd&(1<<j) != 0
BitSet(cmd, j) == (cmd \div Pow2(j)) % 2 = 1

\* min
min(a, b) == IF a < b THEN a ELSE b

\* binary.Write(result, binary.LittleEndian, uint32(n)), for n below 2^31
\* (the lengths of this model), which uint32() leaves as it is
PutUint32(n) == [j \in 1..4 |-> (n \div Pow2(8 * (j - 1))) % 256]

\* binary.LittleEndian.Uint32(b)
Uint32(b) == b[1] + 256 * b[2] + 65536 * b[3] + 16777216 * b[4]

RECURSIVE matchLen(_, _, _, _, _)
\* the inner loop of the search for the longest match: the bytes base and
\* target have in common from baseIndex and targetIndex on, counted from i
matchLen(base, baseIndex, target, targetIndex, i) ==
    IF /\ i < min(Len(base) - baseIndex, Len(target) - targetIndex)
       /\ base[baseIndex + i + 1] = target[targetIndex + i + 1]
    THEN matchLen(base, baseIndex, target, targetIndex, i + 1)
    ELSE i

RECURSIVE bestMatch(_, _, _, _, _)
\* the loop over baseIndex: the first longest match
bestMatch(base, target, targetIndex, baseIndex, best) ==
    IF baseIndex >= Len(base) THEN best
    ELSE bestMatch(base, target, targetIndex, baseIndex + 1,
                   IF matchLen(base, baseIndex, target, targetIndex, 0) > best.len
                   THEN [len |-> matchLen(base, baseIndex, target, targetIndex, 0),
                         offset |-> baseIndex]
                   ELSE best)

\* whether MinMatch bytes of the target at targetIndex occur in the base
found(base, target, targetIndex) ==
    \E baseIndex \in 0..(Len(base) - 1) :
        /\ baseIndex + MinMatch <= Len(base)
        /\ \A i \in 0..(MinMatch - 1) :
               base[baseIndex + i + 1] = target[targetIndex + i + 1]

RECURSIVE insertEnd(_, _, _, _)
\* the loop that looks for the end of an insert begun at insertStart
insertEnd(base, target, insertStart, targetIndex) ==
    IF targetIndex >= Len(target) THEN targetIndex
    ELSE IF targetIndex + MinMatch <= Len(target) /\ found(base, target, targetIndex)
    THEN targetIndex
    ELSE IF targetIndex + 1 - insertStart >= MaxInsert THEN targetIndex + 1
    ELSE insertEnd(base, target, insertStart, targetIndex + 1)

CopyOp(offset, size) == [IsCopy |-> TRUE, Offset |-> offset, Size |-> size, Data |-> <<>>]
InsertOp(data) == [IsCopy |-> FALSE, Offset |-> 0, Size |-> 0, Data |-> data]

\* the operation computeDeltaOperations appends at targetIndex, given the
\* longest match m, and the target index after it
nextOperation(base, target, targetIndex, m) ==
    IF m.len >= MinMatch
    THEN [op |-> CopyOp(m.offset, m.len), next |-> targetIndex + m.len]
    ELSE [op |-> InsertOp(SubSeq(target, targetIndex + 1,
                                 insertEnd(base, target, targetIndex, targetIndex))),
          next |-> insertEnd(base, target, targetIndex, targetIndex)]

RECURSIVE deltaOperationsFrom(_, _, _)
deltaOperationsFrom(base, target, targetIndex) ==
    IF targetIndex >= Len(target) THEN <<>>
    ELSE LET m == IF Len(target) - targetIndex >= MinMatch
                  THEN bestMatch(base, target, targetIndex, 0, [len |-> 0, offset |-> 0])
                  ELSE [len |-> 0, offset |-> 0]
             n == nextOperation(base, target, targetIndex, m)
         IN <<n.op>> \o deltaOperationsFrom(base, target, n.next)

computeDeltaOperations(base, target) == deltaOperationsFrom(base, target, 0)

RECURSIVE presentBytes(_, _, _)
\* the bytes of temp a copy instruction carries, low byte first: byte i is
\* present if what is left of temp is positive or i = 0
presentBytes(temp, i, n) ==
    IF i >= n THEN <<>>
    ELSE IF temp > 0 \/ i = 0
    THEN <<temp % 256>> \o presentBytes(temp \div 256, i + 1, n)
    ELSE presentBytes(temp, i + 1, n)

RECURSIVE presentBits(_, _, _, _)
\* the bits of the command byte set for the bytes present
presentBits(temp, i, n, shift) ==
    IF i >= n THEN 0
    ELSE IF temp > 0 \/ i = 0
    THEN Pow2(i + shift) + presentBits(temp \div 256, i + 1, n, shift)
    ELSE presentBits(temp, i + 1, n, shift)

\* the copy instruction computeDelta writes for op
writeCopy(op) ==
    <<CopyFlag + presentBits(op.Offset, 0, OffsetBytes, 0)
               + presentBits(op.Size, 0, SizeBytes, OffsetBytes)>>
        \o presentBytes(op.Offset, 0, OffsetBytes)
        \o presentBytes(op.Size, 0, SizeBytes)

RECURSIVE writeInsert(_)
\* the insert instructions computeDelta writes for data
writeInsert(data) ==
    IF Len(data) = 0 THEN <<>>
    ELSE <<min(Len(data), MaxInsert)>>
            \o SubSeq(data, 1, min(Len(data), MaxInsert))
            \o writeInsert(SubSeq(data, min(Len(data), MaxInsert) + 1, Len(data)))

RECURSIVE writeOperations(_)
writeOperations(ops) ==
    IF ops = <<>> THEN <<>>
    ELSE (IF Head(ops).IsCopy THEN writeCopy(Head(ops)) ELSE writeInsert(Head(ops).Data))
            \o writeOperations(Tail(ops))

\* the delta of given operations between contents of the given lengths
encodeDelta(baseLen, targetLen, ops) ==
    PutUint32(baseLen) \o PutUint32(targetLen) \o writeOperations(ops)

computeDelta(base, target) ==
    encodeDelta(Len(base), Len(target), computeDeltaOperations(base, target))

RECURSIVE readField(_, _, _, _, _, _, _)
\* the loops of applyDelta that read a copy's offset (shift 0) and size
\* (shift OffsetBytes): delta[i] for every bit of cmd set.  An index past
\* the end of the delta is a run-time panic (index out of range).
readField(delta, i, cmd, j, n, shift, acc) ==
    IF j >= n THEN [st |-> "ok", i |-> i, val |-> acc]
    ELSE IF ~BitSet(cmd, j + shift)
    THEN readField(delta, i, cmd, j + 1, n, shift, acc)
    ELSE IF i >= Len(delta) THEN [st |-> "panic", i |-> i, val |-> acc]
    ELSE readField(delta, i + 1, cmd, j + 1, n, shift,
                   acc + delta[i + 1] * Pow2(8 * j))

\* what a copy instruction says once read: the bytes base[offset:offset+size]
ReadCopy(baseLen, offset, size, i) ==
    IF offset + size > baseLen
    THEN [st |-> "err", i |-> i, offset |-> offset, size |-> size]
    ELSE [st |-> "ok", i |-> i, offset |-> offset, size |-> size]

\* the copy branch of applyDelta for the command byte cmd, the offset read
\* as o, and the instruction's bytes from delta[i] on
readCopySize(baseLen, delta, cmd, o) ==
    LET s == readField(delta, o.i, cmd, 0, SizeBytes, OffsetBytes, 0) IN
    IF s.st # "ok" THEN [st |-> s.st, i |-> s.i, offset |-> o.val, size |-> 0]
    ELSE ReadCopy(baseLen, o.val, IF s.val = 0 THEN ZeroSize ELSE s.val, s.i)

readCopy(baseLen, delta, cmd, i) ==
    LET o == readField(delta, i, cmd, 0, OffsetBytes, 0, 0) IN
    IF o.st # "ok" THEN [st |-> o.st, i |-> o.i, offset |-> 0, size |-> 0]
    ELSE readCopySize(baseLen, delta, cmd, o)

\* applyDelta's error return, and its panic
Failed(st) == [st |-> st, ops |-> <<>>]

RECURSIVE decodeFrom(_, _, _, _, _, _)
\* the instruction loop of applyDelta from delta[i] on.  What it checks
\* depends on the base through len(base) only: the loop is followed here
\* with the operations read so far and the length n of result, and the
\* bytes of result are put together from the operations afterwards.
decodeFrom(baseLen, delta, targetSize, i, ops, n) ==
    IF i >= Len(delta)
    THEN IF n # targetSize THEN Failed("err") ELSE [st |-> "ok", ops |-> ops]
    ELSE IF delta[i + 1] = 0 THEN Failed("err")
    ELSE IF delta[i + 1] >= CopyFlag
    THEN LET c == readCopy(baseLen, delta, delta[i + 1], i + 1) IN
         IF c.st # "ok" THEN Failed(c.st)
         ELSE decodeFrom(baseLen, delta, targetSize, c.i,
                         Append(ops, CopyOp(c.offset, c.size)), n + c.size)
    ELSE IF i + 1 + delta[i + 1] > Len(delta) THEN Failed("err")
    ELSE decodeFrom(baseLen, delta, targetSize, i + 1 + delta[i + 1],
                    Append(ops, InsertOp(SubSeq(delta, i + 2, i + 1 + delta[i + 1]))),
                    n + delta[i + 1])

\* applyDelta on a base of baseLen bytes, up to the bytes of result
decodeDelta(baseLen, delta) ==
    IF Len(delta) < HeaderLen THEN Failed("err")
    ELSE IF Uint32(SubSeq(delta, 1, 4)) # baseLen THEN Failed("err")
    ELSE decodeFrom(baseLen, delta, Uint32(SubSeq(delta, 5, 8)), HeaderLen, <<>>, 0)

RECURSIVE resultOf(_, _)
\* result: base[offset:offset+size] appended for a copy, the data for an insert
resultOf(base, ops) ==
    IF ops = <<>> THEN <<>>
    ELSE (IF Head(ops).IsCopy
          THEN SubSeq(base, Head(ops).Offset + 1, Head(ops).Offset + Head(ops).Size)
          ELSE Head(ops).Data) \o resultOf(base, Tail(ops))

\* applyDelta's return for the operations read as r
applied(base, r) ==
    IF r.st # "ok" THEN [st |-> r.st, out |-> <<>>]
    ELSE [st |-> "ok", out |-> resultOf(base, r.ops)]

applyDelta(base, delta) == applied(base, decodeDelta(Len(base), delta))

\* ==================================================== object store (dbcli)
\* An object file holds "<kind> <size>\0<content>" (a delta object
\* "delta <base-sha> <size>\0<delta>"), zlib-compressed, under the SHA-1 of
\* these bytes.  The model keeps the header's fields apart from the content
\* and takes SHA-1 to be free of collisions: the sum of an object stands
\* for the object summed.

\* contents shorter than this have similarity 0 to anything
MinSimilarLen == 10
\* bytes sampled of each content
SampleSize == 100

\* "blob <len(content)>\0<content>"
BlobObject(content) == [kind |-> "blob", size |-> Len(content), content |-> content]
\* "delta <baseObjID> <len(delta)>\0<delta>"
DeltaObject(baseObjID, delta) ==
    [kind |-> "delta", base |-> baseObjID, size |-> Len(delta), content |-> delta]

\* sha1.Sum(store), in hexadecimal
sha1Sum(store) == [sum |-> store]

\* no object id: ""
NoObject == [sum |-> [kind |-> "none"]]

\* os.WriteFile(objPath, zlib(store)) under .nutella/objects
writeObject(objects, store) ==
    [p \in DOMAIN objects \cup {sha1Sum(store)} |->
        IF p = sha1Sum(store) THEN store ELSE objects[p]]

writeDeltaObject(objects, baseObjID, delta) ==
    [sha |-> sha1Sum(DeltaObject(baseObjID, delta)),
     objects |-> writeObject(objects, DeltaObject(baseObjID, delta))]

max(a, b) == IF a > b THEN a ELSE b

\* the indices calculateSimilarity samples of a content of length n
samples(n) ==
    {i \in 0..(min(n, SampleSize * max(1, n \div SampleSize)) - 1) :
        i % max(1, n \div SampleSize) = 0}

\* calculateSimilarity as the fraction matchCount / sampleCount
calculateSimilarity(a, b) ==
    IF Len(a) < MinSimilarLen \/ Len(b) < MinSimilarLen
    THEN [matchCount |-> 0, sampleCount |-> 1]
    ELSE [matchCount |-> Cardinality({p \in samples(Len(a)) \X samples(Len(b)) :
                                         a[p[1] + 1] = b[p[2] + 1]}),
          sampleCount |-> Cardinality(samples(Len(a)) \X samples(Len(b)))]

\* s > t for two fractions
Exceeds(s, t) == s.matchCount * t.sampleCount > t.matchCount * s.sampleCount

\* whether an object's content of objLen bytes is neither shorter than
\* half of a content of contentLen bytes nor longer than twice that
sizesFit(objLen, contentLen) ==
    ~(objLen < contentLen \div 2 \/ objLen > contentLen * 2)

\* the objects findSimilarObject's walk compares the content with: blobs
\* of a fitting size, more than 60% similar to it
candidates(objects, content) ==
    {p \in DOMAIN objects :
        /\ objects[p].kind = "blob"
        /\ sizesFit(Len(objects[p].content), Len(content))
        /\ Exceeds(calculateSimilarity(objects[p].content, content),
                   [matchCount |-> 6, sampleCount |-> 10])}

\* the objects findSimilarObject can return: the walk keeps the first
\* object of the greatest similarity, and which of several that is depends
\* on the order of their SHA-1 sums; NoObject if there is no candidate
findSimilarObject(objects, content) ==
    IF candidates(objects, content) = {} THEN {NoObject}
    ELSE {p \in candidates(objects, content) :
             \A q \in candidates(objects, content) :
                 ~Exceeds(calculateSimilarity(objects[q].content, content),
                          calculateSimilarity(objects[p].content, content))}

\* whether a delta is smaller than a content of contentLen bytes by the
\* margin hashAndWriteBlob asks for
deltaPays(delta, contentLen) == Len(delta) < (contentLen * 9) \div 10

\* hashAndWriteBlob once the file is read as content and findSimilarObject
\* has returned baseObjID
hashAndWriteBlob(objects, content, baseObjID) ==
    IF sha1Sum(BlobObject(content)) \in DOMAIN objects
    THEN [sha |-> sha1Sum(BlobObject(content)), objects |-> objects]
    ELSE IF /\ baseObjID # NoObject
            /\ deltaPays(computeDelta(objects[baseObjID].content, content), Len(content))
    THEN writeDeltaObject(objects, baseObjID,
                          computeDelta(objects[baseObjID].content, content))
    ELSE [sha |-> sha1Sum(BlobObject(content)),
          objects |-> writeObject(objects, BlobObject(content))]

\* the base findSimilarObject is asked for: any it can return, or none at
\* all when the blob is stored already
bases(objects, content) ==
    IF sha1Sum(BlobObject(content)) \in DOMAIN objects THEN {NoObject}
    ELSE findSimilarObject(objects, content)

\* readObject of a delta object once its base is read as baseObj and the
\* delta applied to the base's content with result r: the content under a
\* header of the base's kind; the process exits if the delta does not apply
rebuilt(baseObj, r) ==
    IF r.st # "ok" THEN [st |-> IF r.st = "panic" THEN "panic" ELSE "exit"]
    ELSE [st |-> "ok", kind |-> baseObj.kind, size |-> Len(r.out), content |-> r.out]

\* readDelta with the delta applied to the bytes stored in the base's
\* file, whatever kind of object they are
readDeltaOnStored(objects, sha, baseObj) ==
    IF baseObj.st # "ok" THEN baseObj
    ELSE rebuilt(baseObj, applyDelta(objects[objects[sha].base].content,
                                     objects[sha].content))

\* readObject of the delta object sha once its base is read as baseObj
readDelta(objects, sha, baseObj) ==
    IF baseObj.st # "ok" THEN baseObj
    ELSE rebuilt(baseObj, applyDelta(baseObj.content, objects[sha].content))

RECURSIVE readObject(_, _)
\* readObject(sha): the object's bytes, header and content; os.Exit(1) if
\* the file is missing
readObject(objects, sha) ==
    IF sha \notin DOMAIN objects THEN [st |-> "exit"]
    ELSE IF objects[sha].kind = "delta"
    THEN readDelta(objects, sha, readObject(objects, objects[sha].base))
    ELSE [st |-> "ok", kind |-> objects[sha].kind, size |-> objects[sha].size,
          content |-> objects[sha].content]

\* ============================================ commit and restore (dbcli)
\* A file name is a byte string, a path the sequence of the names on it.
\* The working directory is a map from paths to files and directories;
\* the repository's own .nutella directory is kept apart from it, as the
\* object files and snapshots.json.

\* ".nutella", ".nutignore", "manifest.json"
DotNutella == <<46, 110, 117, 116, 101, 108, 108, 97>>
DotNutignore == <<46, 110, 117, 116, 105, 103, 110, 111, 114, 101>>
ManifestName == <<109, 97, 110, 105, 102, 101, 115, 116, 46, 106, 115, 111, 110>>
\* the bytes of SaveManifest for a database without collections (their
\* layout is of no concern here: two bytes stand for them)
ManifestBytes == <<123, 125>>
\* '/', '*', '?', '#', '\n'
Slash == 47
Star == 42
Question == 63
Hash == 35
Newline == 10
\* the length of a raw SHA-1 sum
ShaLen == 20
\* "100644" and "40000"
FileMode == <<49, 48, 48, 54, 52, 52>>
DirMode == <<52, 48, 48, 48, 48>>

File(content) == [isDir |-> FALSE, content |-> content]
Dir == [isDir |-> TRUE, content |-> <<>>]

RECURSIVE Less(_, _)
\* a < b for two file names, as os.ReadDir sorts them
Less(a, b) ==
    IF b = <<>> THEN FALSE
    ELSE IF a = <<>> THEN TRUE
    ELSE IF Head(a) # Head(b) THEN Head(a) < Head(b)
    ELSE Less(Tail(a), Tail(b))

RECURSIVE Sorted(_)
\* the names of a set in ascending order
Sorted(names) ==
    IF names = {} THEN <<>>
    ELSE LET first == CHOOSE n \in names : \A m \in names \ {n} : Less(n, m)
         IN <<first>> \o Sorted(names \ {first})

\* os.ReadDir(dir): the names in the directory, sorted
ReadDir(work, dir) ==
    Sorted({p[Len(p)] : p \in {q \in DOMAIN work :
                                  Len(q) = Len(dir) + 1 /\ SubSeq(q, 1, Len(dir)) = dir}})

RECURSIVE Join(_)
\* filepath.Join of the names of a path
Join(path) ==
    IF Len(path) = 0 THEN <<>>
    ELSE IF Len(path) = 1 THEN path[1]
    ELSE path[1] \o <<Slash>> \o Join(Tail(path))

\* strings.Contains(s, substr)
Contains(s, substr) ==
    \E i \in 0..(Len(s) - Len(substr)) : SubSeq(s, i + 1, i + Len(substr)) = substr

RECURSIVE Match(_, _)
\* filepath.Match(pattern, name) for patterns of literal bytes, '*' and '?'
Match(pattern, name) ==
    IF pattern = <<>> THEN name = <<>>
    ELSE IF Head(pattern) = Star
    THEN \E k \in 0..Len(name) :
            /\ \A j \in 1..k : name[j] # Slash
            /\ Match(Tail(pattern), SubSeq(name, k + 1, Len(name)))
    ELSE IF name = <<>> THEN FALSE
    ELSE IF Head(pattern) = Question
    THEN Head(name) # Slash /\ Match(Tail(pattern), Tail(name))
    ELSE Head(pattern) = Head(name) /\ Match(Tail(pattern), Tail(name))

shouldIgnore(relPath, patterns) ==
    \E i \in 1..Len(patterns) :
        Match(patterns[i], relPath) \/ Contains(relPath, patterns[i])

RECURSIVE Split(_, _)
\* strings.Split(s, sep) for a separator of one byte
Split(s, sep) ==
    IF \A i \in 1..Len(s) : s[i] # sep THEN <<s>>
    ELSE LET i == CHOOSE j \in 1..Len(s) : s[j] = sep /\ \A k \in 1..(j - 1) : s[k] # sep
         IN <<SubSeq(s, 1, i - 1)>> \o Split(SubSeq(s, i + 1, Len(s)), sep)

IsSpace(b) == b \in {9, 10, 11, 12, 13, 32}

RECURSIVE TrimSpace(_)
\* strings.TrimSpace
TrimSpace(s) ==
    IF s = <<>> THEN s
    ELSE IF IsSpace(Head(s)) THEN TrimSpace(Tail(s))
    ELSE IF IsSpace(s[Len(s)]) THEN TrimSpace(SubSeq(s, 1, Len(s) - 1))
    ELSE s

RECURSIVE patternsOf(_)
\* the lines loadGitignore keeps: trimmed, not empty, not a comment
patternsOf(lines) ==
    IF lines = <<>> THEN <<>>
    ELSE IF TrimSpace(Head(lines)) = <<>> \/ Head(TrimSpace(Head(lines))) = Hash
    THEN patternsOf(Tail(lines))
    ELSE <<TrimSpace(Head(lines))>> \o patternsOf(Tail(lines))

\* loadGitignore: the patterns of .nutignore, none if there is no such file
loadGitignore(work) ==
    IF <<DotNutignore>> \notin DOMAIN work THEN <<>>
    ELSE patternsOf(Split(work[<<DotNutignore>>].content, Newline))

\* "<mode> <name>\0<sha>"
TreeEntry(mode, name, sha) == [mode |-> mode, name |-> name, sha |-> sha]

RECURSIVE entriesLen(_)
\* len(entries)
entriesLen(entries) ==
    IF entries = <<>> THEN 0
    ELSE Len(Head(entries).mode) + 1 + Len(Head(entries).name) + 1 + ShaLen
            + entriesLen(Tail(entries))

\* "tree <len(entries)>\0<entries>"
TreeObject(entries) ==
    [kind |-> "tree", size |-> entriesLen(entries), content |-> entries]

\* "commit <len>\0tree <treeSha>\n\n<message>\n"
CommitObject(treeSha, message) ==
    [kind |-> "commit", size |-> 5 + 2 * ShaLen + 2 + Len(message) + 1,
     content |-> [tree |-> treeSha, message |-> message]]

\* the base hashAndWriteBlob gets from findSimilarObject during a commit:
\* one of those it can return
baseFor(objects, content) == CHOOSE b \in bases(objects, content) : TRUE

\* the tree object written for the entries r.entries, after the objects
\* r.objects of the entries themselves
writeTree(r) ==
    [sha |-> sha1Sum(TreeObject(r.entries)),
     objects |-> writeObject(r.objects, TreeObject(r.entries))]

\* the entries so far and the objects so far, with one entry more
withEntry(entries, mode, name, w) ==
    [entries |-> Append(entries, TreeEntry(mode, name, w.sha)), objects |-> w.objects]

RECURSIVE writeTreeRecursive(_, _, _, _)
RECURSIVE writeTreeEntries(_, _, _, _, _, _)

\* the loop of writeTreeRecursive after the entry of Head(files), with the
\* entries and the objects r so far
writeTreeNext(work, dir, files, ignores, r) ==
    writeTreeEntries(work, r.objects, dir, Tail(files), ignores, r.entries)

\* the loop of writeTreeRecursive over the files of dir left to visit
writeTreeEntries(work, objects, dir, files, ignores, entries) ==
    IF files = <<>> THEN [entries |-> entries, objects |-> objects]
    ELSE IF \/ Head(files) = DotNutella
            \/ shouldIgnore(Join(Append(dir, Head(files))), ignores)
    THEN writeTreeEntries(work, objects, dir, Tail(files), ignores, entries)
    ELSE writeTreeNext(work, dir, files, ignores,
            IF work[Append(dir, Head(files))].isDir
            THEN withEntry(entries, DirMode, Head(files),
                     writeTreeRecursive(work, objects, Append(dir, Head(files)), ignores))
            ELSE withEntry(entries, FileMode, Head(files),
                     hashAndWriteBlob(objects, work[Append(dir, Head(files))].content,
                         baseFor(objects, work[Append(dir, Head(files))].content))))

writeTreeRecursive(work, objects, dir, ignores) ==
    writeTree(writeTreeEntries(work, objects, dir, ReadDir(work, dir), ignores, <<>>))

\* createAndStoreCommit
createAndStoreCommit(objects, treeSha, message) ==
    [sha |-> sha1Sum(CommitObject(treeSha, message)),
     objects |-> writeObject(objects, CommitObject(treeSha, message))]

\* no snapshots.json
NoSnapshots == [file |-> "none"]
\* snapshots.json holding the JSON object of the entries given
Snapshots(entries) == [file |-> "json", entries |-> entries]
NoEntries == [id \in {} |-> 0]

Snapshot(commit, message, timestamp) ==
    [Commit |-> commit, Message |-> message, Timestamp |-> timestamp]

\* the map storeSnapshot starts from: the file's entries, or an empty map if
\* the file cannot be read
readSnapshots(snapshots) ==
    IF snapshots.file = "json" THEN snapshots.entries ELSE NoEntries

\* storeSnapshot with uuid.New() = id and time.Now() = timestamp
storeSnapshot(snapshots, commitHash, commitMsg, id, timestamp) ==
    Snapshots([k \in DOMAIN readSnapshots(snapshots) \cup {id} |->
                  IF k = id THEN Snapshot(commitHash, commitMsg, timestamp)
                  ELSE readSnapshots(snapshots)[k]])

\* os.RemoveAll(name) in the working directory
RemoveAll(work, name) ==
    [p \in {q \in DOMAIN work : q[1] # name} |-> work[p]]

RECURSIVE cleanEntries(_, _, _)
\* the loop of cleanCurrentDirectory over the entries left to visit
cleanEntries(work, entries, ignores) ==
    IF entries = <<>> THEN work
    ELSE IF \/ Head(entries) = DotNutella \/ Head(entries) = DotNutignore
            \/ shouldIgnore(Head(entries), ignores)
    THEN cleanEntries(work, Tail(entries), ignores)
    ELSE cleanEntries(RemoveAll(work, Head(entries)), Tail(entries), ignores)

cleanCurrentDirectory(work, ignores) == cleanEntries(work, ReadDir(work, <<>>), ignores)

\* whether os.MkdirAll(path) succeeds: nothing on the path is a file
CanMkdirAll(work, path) ==
    \A n \in 1..Len(path) :
        SubSeq(path, 1, n) \in DOMAIN work => work[SubSeq(path, 1, n)].isDir

\* os.MkdirAll(path): the directory and those above it, if that can be
MkdirAll(work, path) ==
    IF ~CanMkdirAll(work, path) THEN work
    ELSE [p \in DOMAIN work \cup {SubSeq(path, 1, n) : n \in 1..Len(path)} |->
             IF p \in DOMAIN work THEN work[p] ELSE Dir]

\* os.WriteFile(path, content): fails on a directory and under a missing one
WriteFile(work, path, content) ==
    IF \/ (path \in DOMAIN work /\ work[path].isDir)
       \/ (Len(path) > 1 /\ SubSeq(path, 1, Len(path) - 1) \notin DOMAIN work)
       \/ (Len(path) > 1 /\ ~work[SubSeq(path, 1, Len(path) - 1)].isDir)
    THEN work
    ELSE [p \in DOMAIN work \cup {path} |-> IF p = path THEN File(content) ELSE work[p]]

RECURSIVE restoreTree(_, _, _, _, _)
RECURSIVE restoreEntries(_, _, _, _, _, _)

\* restoreTree's step for a file entry whose blob is read as blobData
restoreFile(objects, work, entries, restorePath, ignores, blobData) ==
    IF blobData.st # "ok" THEN [st |-> blobData.st, work |-> work]
    ELSE restoreEntries(objects,
             WriteFile(MkdirAll(work, restorePath), Append(restorePath, Head(entries).name),
                       blobData.content),
             Tail(entries), restorePath, ignores, "ok")

\* restoreTree's loop after the sub-tree of Head(entries) is restored as r
restoreNext(objects, entries, restorePath, ignores, r) ==
    restoreEntries(objects, r.work, Tail(entries), restorePath, ignores, r.st)

\* the loop of restoreTree over the entries left to visit; restorePath and
\* repoRel name the same directory, so one path stands for both
restoreEntries(objects, work, entries, restorePath, ignores, st) ==
    IF st # "ok" \/ entries = <<>> THEN [st |-> st, work |-> work]
    ELSE IF shouldIgnore(Join(Append(restorePath, Head(entries).name)), ignores)
    THEN restoreEntries(objects, work, Tail(entries), restorePath, ignores, st)
    ELSE IF Head(entries).mode = FileMode
    THEN restoreFile(objects, work, entries, restorePath, ignores,
                     readObject(objects, Head(entries).sha))
    ELSE IF Head(entries).mode # DirMode
    THEN restoreEntries(objects, work, Tail(entries), restorePath, ignores, st)
    ELSE IF ~CanMkdirAll(work, Append(restorePath, Head(entries).name))
    THEN restoreEntries(objects, work, Tail(entries), restorePath, ignores, st)
    ELSE restoreNext(objects, entries, restorePath, ignores,
             restoreTree(objects, MkdirAll(work, Append(restorePath, Head(entries).name)),
                         Head(entries).sha, Append(restorePath, Head(entries).name),
                         ignores))

\* restoreTree once the tree object is read as data
restoreTreeOf(objects, work, data, restorePath, ignores) ==
    IF data.st # "ok" THEN [st |-> data.st, work |-> work]
    ELSE restoreEntries(objects, work, data.content, restorePath, ignores, "ok")

restoreTree(objects, work, treeSha, restorePath, ignores) ==
    restoreTreeOf(objects, work, readObject(objects, treeSha), restorePath, ignores)

\* restoreCommit once the commit object is read as data
restoreCommitOf(objects, work, data) ==
    IF data.st # "ok" \/ data.kind # "commit" THEN [st |-> "exit", work |-> work]
    ELSE restoreTree(objects, cleanCurrentDirectory(work, loadGitignore(work)),
                     data.content.tree, <<>>, loadGitignore(work))

restoreCommit(objects, work, commitSha) ==
    restoreCommitOf(objects, work, readObject(objects, commitSha))

\* ------------------------------------------ the repository of a database
\* commits and edits of the working directory per run
MaxCommits == 2
MaxEdits == 1
\* the latest time.Now(), in seconds from the first
MaxClock == 1

\* file names "a", "b", "d", "log" and the pattern "l*"
NameA == <<97>>
NameB == <<98>>
NameD == <<100>>
NameLog == <<108, 111, 103>>
PatternL == <<108, Star>>

\* file contents: two similar texts, the second stored as a delta of the
\* first, and two short ones
Text == <<1, 1, 1, 1, 1, 1, 1, 1, 1, 1, 1, 1, 1, 1, 1>>
TextMore == Text \o <<2>>
Short == <<3, 4>>
Empty == <<>>

\* the working directory of the files and directories given
WorkOf(files, dirs) ==
    [p \in DOMAIN files \cup dirs \cup {<<ManifestName>>} |->
        IF p \in dirs THEN Dir
        ELSE IF p \in DOMAIN files THEN File(files[p])
        ELSE File(ManifestBytes)]

\* the working directories a run starts from, each with the manifest.json
\* that NewDatabase wrote
\* a file, and a directory with a file and an empty file
WorkPlain ==
    WorkOf([p \in {<<NameA>>, <<NameD, NameB>>, <<NameD, NameA>>} |->
               IF p = <<NameA>> THEN Short ELSE IF p = <<NameD, NameB>> THEN Text ELSE Empty],
           {<<NameD>>})
\* two similar files, and an empty directory
WorkSimilar ==
    WorkOf([p \in {<<NameA>>, <<NameB>>} |-> IF p = <<NameA>> THEN Text ELSE TextMore],
           {<<NameD>>})
\* .nutignore "log\n#b\n": log and d/log are ignored, d/a is not
WorkIgnore ==
    WorkOf([p \in {<<DotNutignore>>, <<NameLog>>, <<NameD, NameLog>>, <<NameD, NameA>>} |->
               IF p = <<DotNutignore>> THEN NameLog \o <<Newline, Hash>> \o NameB \o <<Newline>>
               ELSE Short],
           {<<NameD>>})
\* .nutignore " l*": the directory log is ignored, log/a matches no pattern
WorkGlob ==
    WorkOf([p \in {<<DotNutignore>>, <<NameLog, NameA>>, <<NameB>>} |->
               IF p = <<DotNutignore>> THEN <<32>> \o PatternL ELSE Short],
           {<<NameLog>>})
\* a directory that holds a repository of its own: d/.nutella/a
WorkNested ==
    WorkOf([p \in {<<NameD, DotNutella, NameA>>, <<NameD, NameA>>} |-> Short],
           {<<NameD>>, <<NameD, DotNutella>>})

InitWorks == {WorkPlain, WorkSimilar, WorkIgnore, WorkGlob, WorkNested}

Messages == {<<109>>, <<110>>}
EditPaths == {<<NameA>>, <<NameD, NameB>>}
EditContents == {Short, TextMore}

NoObjects == [p \in {} |-> 0]
NoWorks == [c \in {} |-> 0]

RepoCall(op, st, commit, before) ==
    [op |-> op, st |-> st, commit |-> commit, before |-> before]

\* handleInitRepository: the directories of .nutella, HEAD, and
\* snapshots.json written as "{}"
handleInitRepository(r) ==
    [r EXCEPT !.inited = TRUE, !.snapshots = Snapshots(NoEntries)]

\* "commit-all <dbID> -m <message>", with time.Now() = now: the tree t, then
\* the commit c, then the snapshot under a new UUID
commitStored(r, message, now, c) ==
    [r EXCEPT !.objects = c.objects,
              !.snapshots = storeSnapshot(r.snapshots, c.sha, message, r.uuids + 1, now),
              !.uuids = r.uuids + 1,
              !.clock = now,
              !.commits = r.commits + 1,
              !.recorded = [k \in DOMAIN r.recorded \cup {r.uuids + 1} |->
                               IF k = r.uuids + 1 THEN Snapshot(c.sha, message, now)
                               ELSE r.recorded[k]],
              !.committed = [k \in DOMAIN r.committed \cup {c.sha} |->
                                IF k = c.sha THEN r.work ELSE r.committed[k]],
              !.last = RepoCall("commit-all", "ok", c.sha, r.work)]

treeCommitted(r, message, now, t) ==
    commitStored(r, message, now, createAndStoreCommit(t.objects, t.sha, message))

DoCommitAll(message, now) ==
    /\ repo.inited
    /\ repo.commits < MaxCommits
    /\ repo' = treeCommitted(repo, message, now,
                   writeTreeRecursive(repo.work, repo.objects, <<>>,
                                      loadGitignore(repo.work)))
    /\ UNCHANGED <<btreeVars, codec, cache, db>>

\* the repository after restoreCommit(commitSha) with result x
restored(r, op, commitSha, x) ==
    [r EXCEPT !.work = x.work, !.last = RepoCall(op, x.st, commitSha, r.work)]

\* "restore-to <dbname> <commit-hash>"
DoRestoreTo(commitSha) ==
    /\ repo.inited
    /\ repo' = restored(repo, "restore-to", commitSha,
                        restoreCommit(repo.objects, repo.work, commitSha))
    /\ UNCHANGED <<btreeVars, codec, cache, db>>

\* "restore <dbname>", with a commit hash of the snapshots listed typed in
DoRestore(id) ==
    /\ repo.snapshots.file = "json"
    /\ id \in DOMAIN repo.snapshots.entries
    /\ repo' = restored(repo, "restore", repo.snapshots.entries[id].Commit,
                        restoreCommit(repo.objects, repo.work,
                                      repo.snapshots.entries[id].Commit))
    /\ UNCHANGED <<btreeVars, codec, cache, db>>

\* "init <dbID>": HandleInit
DoHandleInit ==
    /\ repo' = [handleInitRepository(repo) EXCEPT
                   !.last = RepoCall("init", "ok", NoObject, repo.work)]
    /\ UNCHANGED <<btreeVars, codec, cache, db>>

\* NewDatabase("files/<dbID>", dbID): manifest.json is written unless there
\* is one, then HandleInit(dbID)
NewDatabase(r) ==
    handleInitRepository(
        [r EXCEPT !.work = IF <<ManifestName>> \in DOMAIN r.work THEN r.work
                           ELSE WriteFile(r.work, <<ManifestName>>, ManifestBytes)])

DoNewDatabase ==
    /\ repo' = [NewDatabase(repo) EXCEPT
                   !.last = RepoCall("NewDatabase", "ok", NoObject, repo.work)]
    /\ UNCHANGED <<btreeVars, codec, cache, db>>

\* a file of the working directory is written (not by the program)
DoEdit(path, content) ==
    /\ repo.edits < MaxEdits
    /\ repo' = [repo EXCEPT !.work = WriteFile(repo.work, path, content),
                            !.edits = repo.edits + 1,
                            !.last = RepoCall("edit", "ok", NoObject, repo.work)]
    /\ UNCHANGED <<btreeVars, codec, cache, db>>

\* the B-tree is not in use
BTreeUnused ==
    /\ disk = NoFiles /\ metaDisk = NoMeta /\ RootID = 0 /\ NextID = 0
    /\ isOpen = FALSE /\ pathsAgree = TRUE /\ last = NoCall
    /\ stored = NoFiles /\ beforeClose = NoAnswers /\ budget = 0 /\ faults = 0

\* the directory of a database that NewDatabase has created and whose
\* owner has put files into
InitRepo ==
    /\ BTreeUnused /\ codec = Unused /\ cache = Unused /\ db = Unused
    /\ \E w \in InitWorks :
          repo = [work |-> w, objects |-> NoObjects, snapshots |-> Snapshots(NoEntries),
                  inited |-> TRUE, uuids |-> 0, clock |-> 0, commits |-> 0, edits |-> 0,
                  recorded |-> NoEntries, committed |-> NoWorks,
                  last |-> RepoCall("none", "ok", NoObject, w)]

CommitObjects == {p \in DOMAIN repo.objects : repo.objects[p].kind = "commit"}

NextRepo ==
    \/ \E message \in Messages, now \in repo.clock..MaxClock : DoCommitAll(message, now)
    \/ \E commitSha \in CommitObjects : DoRestoreTo(commitSha)
    \/ \E id \in 1..repo.uuids : DoRestore(id)
    \/ DoHandleInit
    \/ DoNewDatabase
    \/ \E path \in EditPaths, content \in EditContents : DoEdit(path, content)

SpecRepo == InitRepo /\ [][NextRepo]_vars

\* ------------------------------------------------- the object directory
\* blob writes and delta objects written per run
MaxWrites == 4
MaxDeltas == 2

\* contents written: nine bytes and a tenth, nineteen and a twentieth,
\* twenty-one alike, and two that are too short to be similar to anything
Nine == <<1, 1, 1, 1, 1, 1, 1, 1, 1, 2>>
Nineteen == <<1, 1, 1, 1, 1, 1, 1, 1, 1, 1, 1, 1, 1, 1, 1, 1, 1, 1, 1, 2>>
Alike == <<1, 1, 1, 1, 1, 1, 1, 1, 1, 1, 1, 1, 1, 1, 1, 1, 1, 1, 1, 1, 1>>
Contents == {Nine, Nineteen, Alike, Short, Empty}
Targets == {Nineteen, Short}

StoreCall(op, sha, content) == [op |-> op, sha |-> sha, content |-> content]

\* the ids returned for a content, with one more
Returned(returned, content, sha) ==
    [returned EXCEPT ![content] = @ \cup {sha}]

\* the object directory after hashAndWriteBlob of a file of the content
\* given, with result w
blobWritten(r, content, w) ==
    [r EXCEPT !.objects = w.objects,
              !.writes = r.writes + 1,
              !.returned = Returned(r.returned, content, w.sha),
              !.last = StoreCall("hashAndWriteBlob", w.sha, content)]

DoHashAndWriteBlob(content, baseObjID) ==
    /\ repo.writes < MaxWrites
    /\ repo' = blobWritten(repo, content,
                           hashAndWriteBlob(repo.objects, content, baseObjID))
    /\ UNCHANGED <<btreeVars, codec, cache, db>>

\* the object directory after writeDeltaObject with result w
deltaWritten(r, target, w) ==
    [r EXCEPT !.objects = w.objects,
              !.deltas = r.deltas + 1,
              !.last = StoreCall("writeDeltaObject", w.sha, target)]

\* writeDeltaObject(baseObjID, computeDelta(base, target)) for the content
\* base of an object of the directory, itself a blob or a delta
DoWriteDeltaObject(baseObjID, target) ==
    /\ repo.deltas < MaxDeltas
    /\ readObject(repo.objects, baseObjID).st = "ok"
    /\ repo' = deltaWritten(repo, target,
                   writeDeltaObject(repo.objects, baseObjID,
                       computeDelta(readObject(repo.objects, baseObjID).content, target)))
    /\ UNCHANGED <<btreeVars, codec, cache, db>>

\* readObject(sha)
DoReadObject(sha) ==
    /\ repo' = [repo EXCEPT !.last = StoreCall("readObject", sha,
                                               readObject(repo.objects, sha))]
    /\ UNCHANGED <<btreeVars, codec, cache, db>>

\* an empty .nutella/objects
InitStore ==
    /\ BTreeUnused /\ codec = Unused /\ cache = Unused /\ db = Unused
    /\ repo = [objects |-> NoObjects, writes |-> 0, deltas |-> 0,
               returned |-> [c \in Contents |-> {}],
               last |-> StoreCall("none", NoObject, Empty)]

NextStore ==
    \/ \E content \in Contents :
          \E baseObjID \in bases(repo.objects, content) :
              DoHashAndWriteBlob(content, baseObjID)
    \/ \E baseObjID \in DOMAIN repo.objects, target \in Targets :
          DoWriteDeltaObject(baseObjID, target)
    \/ \E sha \in DOMAIN repo.objects : DoReadObject(sha)

SpecStore == InitStore /\ [][NextStore]_vars

\* --------------------------------------- contents too long to write out
\* A base of baseLen bytes and a content that is the stretch
\* base[offset:offset+size] of it, known by these numbers alone: what the
\* codec and the blob write path do with them depends on the lengths only,
\* once the operations of the delta and the answer of findSimilarObject
\* are given.
CopyOffsets == {0, 1, Pow2(8), Pow2(16) - 1, Pow2(24), Pow2(24) + 1}
CopySizes ==
    {MinMatch, Pow2(8) - 1, Pow2(8), Pow2(16) - 1, Pow2(16), Pow2(16) + 1,
     Pow2(24) - 1, Pow2(24), Pow2(24) + MinMatch}
\* bytes of the base after the stretch
Rests == {0, 1}

\* computeDeltaOperations for a target that is size bytes of the base from
\* offset on, size at least MinMatch, when no earlier index of the base
\* gives a match as long: the first and longest match is the whole target
stretchOperations(offset, size) == <<CopyOp(offset, size)>>

\* computeDelta for such a target
stretchDelta(c) == encodeDelta(c.baseLen, c.size, stretchOperations(c.offset, c.size))

\* hashAndWriteBlob for such a content when the blob is not stored yet:
\* a delta object if findSimilarObject returns the base (it has to be of a
\* fitting size, and similar) and the delta pays, the full blob if not
stretchStored(c) ==
    IF c.similar /\ sizesFit(c.baseLen, c.size) /\ deltaPays(stretchDelta(c), c.size)
    THEN "delta" ELSE "blob"

\* readObject of the object written: a blob as it is, a delta object once
\* the delta is applied to the base with result r
stretchRead(c, r) ==
    IF c.stored = "blob" THEN [st |-> "ok", ops |-> stretchOperations(c.offset, c.size)]
    ELSE IF r.st # "ok" THEN [st |-> IF r.st = "panic" THEN "panic" ELSE "exit", ops |-> <<>>]
    ELSE [st |-> "ok", ops |-> r.ops]

DoComputeStretch ==
    /\ codec.phase = "content"
    /\ codec' = [codec EXCEPT !.phase = "delta", !.delta = stretchDelta(codec)]
    /\ UNCHANGED <<btreeVars, repo, cache, db>>

DoApplyStretch ==
    /\ codec.phase = "delta"
    /\ codec' = [codec EXCEPT !.phase = "applied",
                              !.result = decodeDelta(codec.baseLen, codec.delta)]
    /\ UNCHANGED <<btreeVars, repo, cache, db>>

DoWriteStretch ==
    /\ codec.phase = "content"
    /\ codec' = [codec EXCEPT !.phase = "written",
                              !.delta = stretchDelta(codec),
                              !.stored = stretchStored(codec)]
    /\ UNCHANGED <<btreeVars, repo, cache, db>>

DoReadStretch ==
    /\ codec.phase = "written"
    /\ codec' = [codec EXCEPT !.phase = "read",
                              !.result = stretchRead(codec,
                                             decodeDelta(codec.baseLen, codec.delta))]
    /\ UNCHANGED <<btreeVars, repo, cache, db>>

InitCopy ==
    /\ BTreeUnused /\ repo = Unused /\ cache = Unused /\ db = Unused
    /\ \E offset \in CopyOffsets, size \in CopySizes, rest \in Rests, similar \in BOOLEAN :
          codec = [phase |-> "content", baseLen |-> offset + size + rest,
                   offset |-> offset, size |-> size, similar |-> similar,
                   delta |-> <<>>, stored |-> "none",
                   result |-> [st |-> "none", ops |-> <<>>]]

NextCopy ==
    \/ DoComputeStretch
    \/ DoApplyStretch
    \/ DoWriteStretch
    \/ DoReadStretch

SpecCopy == InitCopy /\ [][NextCopy]_vars

\* ------------------------------------------------ deltas of short contents
\* the longest base and the longest target
MaxBaseLen == 4
MaxTargetLen == 5
\* the bytes contents are made of
MaxByte == 2

\* the byte strings of at most n bytes
Strings(n) == UNION {[1..k -> 1..MaxByte] : k \in 0..n}

\* bytes written into a delta: the reserved command, an insert of one
\* byte, an insert of a hundred, a copy with one offset and one size byte
TamperBytes == {0, 1, 100, 145}

\* computeDelta(base, target)
DoComputeDelta ==
    /\ codec.phase = "content"
    /\ codec' = [codec EXCEPT !.phase = "delta",
                              !.delta = computeDelta(codec.base, codec.target)]
    /\ UNCHANGED <<btreeVars, repo, cache, db>>

\* the delta loses its bytes from delta[n] on (not done by the program)
DoTruncate(n) ==
    /\ codec.phase = "delta" /\ ~codec.tampered
    /\ codec' = [codec EXCEPT !.delta = SubSeq(codec.delta, 1, n), !.tampered = TRUE]
    /\ UNCHANGED <<btreeVars, repo, cache, db>>

\* delta[i] is overwritten (not done by the program); the sizes of the
\* header stay below 2^31
DoSetByte(i, b) ==
    /\ codec.phase = "delta" /\ ~codec.tampered
    /\ b < CopyFlag \/ i >= HeaderLen
    /\ codec.delta[i + 1] # b
    /\ codec' = [codec EXCEPT !.delta[i + 1] = b, !.tampered = TRUE]
    /\ UNCHANGED <<btreeVars, repo, cache, db>>

\* applyDelta(against, delta)
DoApplyDelta(against) ==
    /\ codec.phase = "delta"
    /\ codec' = [codec EXCEPT !.phase = "applied", !.against = against,
                              !.result = applyDelta(against, codec.delta)]
    /\ UNCHANGED <<btreeVars, repo, cache, db>>

InitDelta ==
    /\ BTreeUnused /\ repo = Unused /\ cache = Unused /\ db = Unused
    /\ \E base \in Strings(MaxBaseLen), target \in Strings(MaxTargetLen) :
          codec = [phase |-> "content", base |-> base, target |-> target,
                   delta |-> <<>>, tampered |-> FALSE, against |-> <<>>,
                   result |-> [st |-> "none", out |-> <<>>]]

NextDelta ==
    \/ DoComputeDelta
    \/ \E n \in 0..(Len(codec.delta) - 1) : DoTruncate(n)
    \/ \E i \in 0..(Len(codec.delta) - 1), b \in TamperBytes : DoSetByte(i, b)
    \/ \E against \in {codec.base, codec.target} : DoApplyDelta(against)

SpecDelta == InitDelta /\ [][NextDelta]_vars

\* -------------------------------------------- commit-all with failing writes
\* "commit-all" write by write.  The handler's os.WriteFile calls are
\* numbered as it makes them; the call numbered failAt fails, and leaves
\* its file as it was or cut short (os.WriteFile truncates the file before
\* it writes).  log lists the calls in their order.

\* the greatest number of a failing write
MaxFailAt == 6

\* an object file cut short: it exists, and holds no object
CutObject == [kind |-> "cut", size |-> 0, content |-> <<>>]
\* snapshots.json cut short
CutSnapshots == [file |-> "cut"]

Writer(objects, failAt, cut) ==
    [objects |-> objects, log |-> <<>>, n |-> 0, failAt |-> failAt, cut |-> cut, st |-> "ok"]

Wrote(what, sha) == [what |-> what, sha |-> sha]

\* os.WriteFile(objPath, zlib(store)) as write number w.n + 1
writeObjectOrFail(w, store) ==
    IF w.n + 1 = w.failAt
    THEN [w EXCEPT !.n = @ + 1, !.st = "err",
                   !.objects = IF w.cut
                               THEN [p \in DOMAIN @ \cup {sha1Sum(store)} |->
                                        IF p = sha1Sum(store) THEN CutObject ELSE @[p]]
                               ELSE @,
                   !.log = Append(@, Wrote("failed", sha1Sum(store)))]
    ELSE [w EXCEPT !.n = @ + 1,
                   !.objects = writeObject(@, store),
                   !.log = Append(@, Wrote("object", sha1Sum(store)))]

\* hashAndWriteBlob from its fall-back on: the full blob is written
blobTried(w, content) ==
    [sha |-> sha1Sum(BlobObject(content)), w |-> writeObjectOrFail(w, BlobObject(content))]

\* hashAndWriteBlob after writeDeltaObject has left the writer as a: the
\* delta's id, or the fall-back if the write failed
deltaTried(a, content, delta) ==
    IF a.st = "ok" THEN [sha |-> sha1Sum(delta), w |-> a]
    ELSE blobTried([a EXCEPT !.st = "ok"], content)

hashAndWriteBlobOrFail(w, content, baseObjID) ==
    IF sha1Sum(BlobObject(content)) \in DOMAIN w.objects
    THEN [sha |-> sha1Sum(BlobObject(content)), w |-> w]
    ELSE IF /\ baseObjID # NoObject
            /\ deltaPays(computeDelta(w.objects[baseObjID].content, content), Len(content))
    THEN deltaTried(
             writeObjectOrFail(w, DeltaObject(baseObjID,
                                   computeDelta(w.objects[baseObjID].content, content))),
             content,
             DeltaObject(baseObjID, computeDelta(w.objects[baseObjID].content, content)))
    ELSE blobTried(w, content)

RECURSIVE writeTreeRecursiveOrFail(_, _, _, _)
RECURSIVE writeTreeEntriesOrFail(_, _, _, _, _, _)

\* the loop of writeTreeRecursive after hashAndWriteBlob or the recursive
\* call has returned r for Head(files): the error is returned, or the
\* entry appended
entryWritten(work, dir, files, ignores, entries, mode, r) ==
    IF r.w.st # "ok" THEN [entries |-> entries, w |-> r.w]
    ELSE writeTreeEntriesOrFail(work, r.w, dir, Tail(files), ignores,
                                Append(entries, TreeEntry(mode, Head(files), r.sha)))

writeTreeEntriesOrFail(work, w, dir, files, ignores, entries) ==
    IF files = <<>> THEN [entries |-> entries, w |-> w]
    ELSE IF \/ Head(files) = DotNutella
            \/ shouldIgnore(Join(Append(dir, Head(files))), ignores)
    THEN writeTreeEntriesOrFail(work, w, dir, Tail(files), ignores, entries)
    ELSE IF work[Append(dir, Head(files))].isDir
    THEN entryWritten(work, dir, files, ignores, entries, DirMode,
             writeTreeRecursiveOrFail(work, w, Append(dir, Head(files)), ignores))
    ELSE entryWritten(work, dir, files, ignores, entries, FileMode,
             hashAndWriteBlobOrFail(w, work[Append(dir, Head(files))].content,
                 baseFor(w.objects, work[Append(dir, Head(files))].content)))

\* writeTreeRecursive after its loop has returned r
treeWritten(r) ==
    IF r.w.st # "ok" THEN [sha |-> NoObject, w |-> r.w]
    ELSE [sha |-> sha1Sum(TreeObject(r.entries)),
          w |-> writeObjectOrFail(r.w, TreeObject(r.entries))]

writeTreeRecursiveOrFail(work, w, dir, ignores) ==
    treeWritten(writeTreeEntriesOrFail(work, w, dir, ReadDir(work, dir), ignores, <<>>))

createAndStoreCommitOrFail(w, treeSha, message) ==
    [sha |-> sha1Sum(CommitObject(treeSha, message)),
     w |-> writeObjectOrFail(w, CommitObject(treeSha, message))]

\* a commit-all of repository r that ended as st, with the writes in log
CommitCall(r, message, st, commit, log) ==
    [op |-> "commit-all", st |-> st, commit |-> commit, before |-> r.work,
     message |-> message, log |-> log, objects |-> r.objects, snapshots |-> r.snapshots]

\* os.Exit(1) of the handler
exited(r, message, w, snapshots) ==
    [r EXCEPT !.objects = w.objects, !.snapshots = snapshots, !.commits = @ + 1,
              !.last = CommitCall(r, message, "exit", NoObject, w.log)]

\* the handler after createAndStoreCommit has returned c: storeSnapshot
commitWritten(r, message, now, c) ==
    IF c.w.st # "ok" THEN exited(r, message, c.w, r.snapshots)
    ELSE IF c.w.n + 1 = c.w.failAt
    THEN exited(r, message, [c.w EXCEPT !.log = Append(@, Wrote("failed", NoObject))],
                IF c.w.cut THEN CutSnapshots ELSE r.snapshots)
    ELSE [commitStored(r, message, now, [sha |-> c.sha, objects |-> c.w.objects])
             EXCEPT !.last = CommitCall(r, message, "ok", c.sha,
                                        Append(c.w.log, Wrote("snapshot", c.sha)))]

\* the handler after writeTreeRecursive has returned t
rootWritten(r, message, now, t) ==
    IF t.w.st # "ok" THEN exited(r, message, t.w, r.snapshots)
    ELSE commitWritten(r, message, now, createAndStoreCommitOrFail(t.w, t.sha, message))

\* "commit-all <dbID> -m <message>"
handleCommitAllCmd(r, message, now, failAt, cut) ==
    IF message = <<>> THEN exited(r, message, Writer(r.objects, failAt, cut), r.snapshots)
    ELSE rootWritten(r, message, now,
             writeTreeRecursiveOrFail(r.work, Writer(r.objects, failAt, cut), <<>>,
                                      loadGitignore(r.work)))

DoCommitAllOrFail(message, now, failAt, cut) ==
    /\ repo.inited
    /\ repo.commits < MaxCommits
    /\ repo' = handleCommitAllCmd(repo, message, now, failAt, cut)
    /\ UNCHANGED <<btreeVars, codec, cache, db>>

NextCommit ==
    \/ \E message \in Messages \cup {<<>>}, now \in repo.clock..MaxClock,
          failAt \in 0..MaxFailAt, cut \in BOOLEAN :
              DoCommitAllOrFail(message, now, failAt, cut)
    \/ \E path \in EditPaths, content \in EditContents : DoEdit(path, content)

SpecCommit == InitRepo /\ [][NextCommit]_vars

\* ------------------------------------------------ readObject call by call
\* readObject on an object directory as it is found: the files are named
\* by any ids and hold any objects, readObject does not compare a file's
\* name with the SHA-1 of what it holds.  A call of readObject for a delta
\* object calls readObject for its base; stack holds the ids of the calls
\* that have not returned, the latest last.

\* readObject calls per run
MaxReads == 2
\* the nested calls the goroutine's stack has room for
StackLimit == 5
\* object files of the directory
MaxCrafted == 3

\* the id of object file n
Crafted(n) == [sum |-> [kind |-> "crafted", n |-> n]]
CraftedIds == {Crafted(n) : n \in 1..MaxCrafted}

\* what an object file can hold: a blob, or a delta of the blob's content
\* with any file, or a file that is not there, as its base
CraftedObjects ==
    {BlobObject(Short)}
        \cup {DeltaObject(Crafted(n), computeDelta(Short, Short)) : n \in 1..(MaxCrafted + 1)}

ReadCall(pc, stack, calls) == [pc |-> pc, stack |-> stack, calls |-> calls]

\* readObject(sha) is called
DoReadObjectCall(sha) ==
    /\ repo.last.pc # "reading"
    /\ repo.last.calls < MaxReads
    /\ repo' = [repo EXCEPT !.last = ReadCall("reading", <<sha>>, @.calls + 1)]
    /\ UNCHANGED <<btreeVars, codec, cache, db>>

\* how the outermost call ends once the innermost has read an object that
\* is no delta, or has found no file: every call on the stack returns or
\* the process exits
ended(objects, stack) ==
    IF readObject(objects, stack[1]).st = "ok" THEN "returned"
    ELSE readObject(objects, stack[1]).st

\* the innermost call reads its file: for a delta object it calls
\* readObject for the base, and the runtime ends the process when the
\* stack has no room for the call
DoReadObjectStep ==
    /\ repo.last.pc = "reading"
    /\ repo' = [repo EXCEPT !.last =
          IF /\ repo.last.stack[Len(repo.last.stack)] \in DOMAIN repo.objects
             /\ repo.objects[repo.last.stack[Len(repo.last.stack)]].kind = "delta"
          THEN IF Len(repo.last.stack) = StackLimit
               THEN [@ EXCEPT !.pc = "overflow"]
               ELSE [@ EXCEPT !.stack =
                        Append(@, repo.objects[repo.last.stack[Len(repo.last.stack)]].base)]
          ELSE [@ EXCEPT !.pc = ended(repo.objects, repo.last.stack)]]
    /\ UNCHANGED <<btreeVars, codec, cache, db>>

InitRead ==
    /\ BTreeUnused /\ codec = Unused /\ cache = Unused /\ db = Unused
    /\ \E objects \in [CraftedIds -> CraftedObjects] :
          repo = [objects |-> objects, last |-> ReadCall("idle", <<>>, 0)]

NextRead ==
    \/ \E sha \in DOMAIN repo.objects : DoReadObjectCall(sha)
    \/ DoReadObjectStep

\* a call that can take its next step takes it
SpecRead == InitRead /\ [][NextRead]_vars /\ WF_vars(DoReadObjectStep)

\* ------------------------------------------- blobs at the delta threshold
\* hashAndWriteBlob on contents whose deltas are as long as nine tenths of
\* the content, or nearly so

\* fourteen bytes of Text and two more: the delta of Text is a copy and an
\* insert, 14 bytes, and nine tenths of the 16 bytes are 14.4
Edge == SubSeq(Text, 1, 14) \o <<2, 3>>
\* fourteen bytes of Text and six more: the delta of Text takes 18 bytes,
\* nine tenths of the 20 bytes
Over == SubSeq(Text, 1, 14) \o <<2, 3, 2, 3, 2, 3>>
PayContents == {Text, TextMore, Edge, Over, Short}

InitPays ==
    /\ BTreeUnused /\ codec = Unused /\ cache = Unused /\ db = Unused
    /\ repo = [objects |-> NoObjects, writes |-> 0, deltas |-> 0,
               returned |-> [c \in PayContents |-> {}],
               last |-> StoreCall("none", NoObject, Empty)]

NextPays ==
    \/ \E content \in PayContents :
          \E baseObjID \in bases(repo.objects, content) :
              DoHashAndWriteBlob(content, baseObjID)
    \/ \E sha \in DOMAIN repo.objects : DoReadObject(sha)

SpecPays == InitPays /\ [][NextPays]_vars

\* ============================================== encoding/json, strconv
\* A Go string is the sequence of its bytes.  What json.Marshal writes for
\* a string and what json.Unmarshal reads back from it, and the decimal
\* digits of an int.

\* a continuation byte of UTF-8
IsCont(b) == b >= 128 /\ b <= 191

\* utf8.DecodeRune: the length of the encoding of a rune that s starts
\* with, 0 if s starts with no valid encoding
RuneLen(s) ==
    IF s = <<>> THEN 0
    ELSE IF s[1] < 128 THEN 1
    ELSE IF s[1] >= 194 /\ s[1] <= 223
    THEN IF Len(s) >= 2 /\ IsCont(s[2]) THEN 2 ELSE 0
    ELSE IF s[1] >= 224 /\ s[1] <= 239
    THEN IF /\ Len(s) >= 3 /\ IsCont(s[2]) /\ IsCont(s[3])
            /\ (s[1] = 224 => s[2] >= 160)
            /\ (s[1] = 237 => s[2] <= 159)
         THEN 3 ELSE 0
    ELSE IF s[1] >= 240 /\ s[1] <= 244
    THEN IF /\ Len(s) >= 4 /\ IsCont(s[2]) /\ IsCont(s[3]) /\ IsCont(s[4])
            /\ (s[1] = 240 => s[2] >= 144)
            /\ (s[1] = 244 => s[2] <= 143)
         THEN 4 ELSE 0
    ELSE 0

RECURSIVE ValidUTF8(_)
\* utf8.ValidString
ValidUTF8(s) ==
    s = <<>> \/ (RuneLen(s) > 0 /\ ValidUTF8(SliceFrom(s, RuneLen(s))))

\* the hexadecimal digit of d, and the number a hexadecimal digit stands for
HexDigit(d) == IF d < 10 THEN 48 + d ELSE 87 + d
HexValue(b) == IF b <= 57 THEN b - 48 ELSE IF b <= 70 THEN b - 55 ELSE b - 87

\* "\u00" and the two digits of ASCII byte b
EscapedByte(b) == <<92, 117, 48, 48, HexDigit(b \div 16), HexDigit(b % 16)>>

\* what the encoder writes for an ASCII byte: '"' and '\' behind a
\* backslash, \n, \r and \t by their letters, the other control bytes and
\* '<', '>', '&' as \u00XX, every other byte as it is
EncodedASCII(b) ==
    IF b = 34 \/ b = 92 THEN <<92, b>>
    ELSE IF b = 10 THEN <<92, 110>>
    ELSE IF b = 13 THEN <<92, 114>>
    ELSE IF b = 9 THEN <<92, 116>>
    ELSE IF b < 32 \/ b = 60 \/ b = 62 \/ b = 38 THEN EscapedByte(b)
    ELSE <<b>>

RECURSIVE appendString(_)
\* the bytes the encoder writes between the quotes for string s: a byte
\* that starts no valid UTF-8 encoding becomes the six bytes of a u-escape
\* of U+FFFD, and U+2028 and U+2029 become their u-escapes
appendString(s) ==
    IF s = <<>> THEN <<>>
    ELSE IF s[1] < 128 THEN EncodedASCII(s[1]) \o appendString(Tail(s))
    ELSE IF RuneLen(s) = 0
    THEN <<92, 117, 102, 102, 102, 100>> \o appendString(Tail(s))
    ELSE IF RuneLen(s) = 3 /\ s[1] = 226 /\ s[2] = 128 /\ (s[3] = 168 \/ s[3] = 169)
    THEN <<92, 117, 50, 48, 50, HexDigit(s[3] - 160)>> \o appendString(SliceFrom(s, 3))
    ELSE SubSeq(s, 1, RuneLen(s)) \o appendString(SliceFrom(s, RuneLen(s)))

\* json.Marshal of a string
encodeString(s) == <<34>> \o appendString(s) \o <<34>>

\* utf8.EncodeRune for a rune of the basic plane
EncodeRune(r) ==
    IF r < 128 THEN <<r>>
    ELSE IF r < 2048 THEN <<192 + (r \div 64), 128 + (r % 64)>>
    ELSE <<224 + (r \div 4096), 128 + ((r \div 64) % 64), 128 + (r % 64)>>

\* the rune of the four hexadecimal digits s[i+1..i+4]
Hex4(s, i) ==
    4096 * HexValue(s[i + 1]) + 256 * HexValue(s[i + 2])
        + 16 * HexValue(s[i + 3]) + HexValue(s[i + 4])

\* the byte a letter behind a backslash stands for
Unescaped(b) ==
    IF b = 110 THEN 10
    ELSE IF b = 114 THEN 13
    ELSE IF b = 116 THEN 9
    ELSE IF b = 98 THEN 8
    ELSE IF b = 102 THEN 12
    ELSE b

RECURSIVE unquoteBytes(_)
\* the string of the bytes s between the quotes of a JSON string
unquoteBytes(s) ==
    IF s = <<>> THEN <<>>
    ELSE IF s[1] = 92
    THEN IF s[2] = 117
         THEN EncodeRune(Hex4(s, 2)) \o unquoteBytes(SliceFrom(s, 6))
         ELSE <<Unescaped(s[2])>> \o unquoteBytes(SliceFrom(s, 2))
    ELSE IF RuneLen(s) = 0 THEN <<239, 191, 189>> \o unquoteBytes(Tail(s))
    ELSE SubSeq(s, 1, RuneLen(s)) \o unquoteBytes(SliceFrom(s, RuneLen(s)))

\* the bytes between the quotes of a JSON string, as they are
quotedBytes(text) == SubSeq(text, 2, Len(text) - 1)

\* json.Unmarshal of a JSON string into a string
decodeString(text) == unquoteBytes(SubSeq(text, 2, Len(text) - 1))

RECURSIVE Digits(_)
\* the decimal digits of n >= 0
Digits(n) == IF n < 10 THEN <<48 + n>> ELSE Digits(n \div 10) \o <<48 + (n % 10)>>

\* json.Marshal of an int
encodeInt(n) == IF n < 0 THEN <<45>> \o Digits(-n) ELSE Digits(n)

RECURSIVE Number(_)
\* the number of decimal digits s
Number(s) == IF s = <<>> THEN 0 ELSE 10 * Number(SliceTo(s, Len(s) - 1)) + (s[Len(s)] - 48)

\* json.Unmarshal of a JSON number into an int
decodeInt(text) == IF Head(text) = 45 THEN -Number(Tail(text)) ELSE Number(text)

\* =========================================================== LRU cache
\* A *Cache is its fields CacheMap (collection -> key -> list element),
\* LruList (the elements, front first), MaxSize and CacheData, and Items,
\* the CacheItem each list element holds.  List elements are pointers: an
\* element is a number, and a new element is a number no element reachable
\* from the cache has.

EmptyMap == [x \in {} |-> 0]

\* m[k] = v
Put(m, k, v) == [x \in DOMAIN m \cup {k} |-> IF x = k THEN v ELSE m[x]]
\* delete(m, k)
Drop(m, k) == [x \in DOMAIN m \ {k} |-> m[x]]

CacheItem(collection, key, value) ==
    [Collection |-> collection, Key |-> key, Value |-> value]

\* container/list
PushFront(l, e) == <<e>> \o l
Kept(l, e) == l
Remove(l, e) == SelectSeq(l, LAMBDA x : x # e)
MoveToFront(l, e) == IF e \in Range(l) THEN <<e>> \o Remove(l, e) ELSE l
Front(l) == l[1]
Back(l) == l[Len(l)]

NewCache(maxSize) ==
    [CacheMap |-> EmptyMap, LruList |-> <<>>, Items |-> EmptyMap,
     MaxSize |-> maxSize, CacheData |-> EmptyMap]

\* the (collection, key) slots of CacheMap
Slots(c) ==
    UNION {{<<collection, key>> : key \in DOMAIN c.CacheMap[collection]} :
              collection \in DOMAIN c.CacheMap}

\* the sum of len(colItems) over CacheMap
totalItems(c) == Cardinality(Slots(c))

\* the elements reachable from the cache
Reachable(c) == Range(c.LruList) \cup {c.CacheMap[s[1]][s[2]] : s \in Slots(c)}

\* a newly allocated list element
NewElement(c) ==
    CHOOSE e \in 1..(Cardinality(Reachable(c)) + 1) :
        /\ e \notin Reachable(c)
        /\ \A x \in 1..(e - 1) : x \in Reachable(c)

\* the items of the elements reachable
Collected(c) == [c EXCEPT !.Items = [e \in Reachable(c) |-> c.Items[e]]]

\* the value-only view SaveCache rebuilds from CacheMap
Snapshotted(c) ==
    [collection \in DOMAIN c.CacheMap |->
        [key \in DOMAIN c.CacheMap[collection] |->
            c.Items[c.CacheMap[collection][key]].Value]]

\* cache.json: the JSON text of max_size and of every value of cache_data
\* (collection names and keys are plain ASCII names, written as they are)
CacheFile(c) ==
    [max_size |-> encodeInt(c.MaxSize),
     cache_data |-> [collection \in DOMAIN c.CacheMap |->
                        [key \in DOMAIN c.CacheMap[collection] |->
                            encodeString(Snapshotted(c)[collection][key])]]]

\* SaveCache: CacheData is rebuilt, and cache.json written unless the
\* write fails
SaveCache(c, written, file) ==
    [cache |-> [c EXCEPT !.CacheData = Snapshotted(c)],
     err |-> ~written,
     file |-> IF written THEN CacheFile(c) ELSE file]

\* the buckets of a collection, made
withCollection(c, collection) ==
    [c EXCEPT !.CacheMap = Put(@, collection, EmptyMap),
              !.CacheData = Put(@, collection, EmptyMap)]

\* AddCollection: an error if the collection has a bucket; the buckets are
\* made and the cache saved (IS_IN_MEMORY is true) otherwise
AddCollection(c, collectionName, written, file) ==
    IF collectionName \in DOMAIN c.CacheMap
    THEN [cache |-> c, err |-> TRUE, file |-> file]
    ELSE SaveCache(withCollection(c, collectionName), written, file)

\* item pushed to the front of the list as element e and indexed
pushed(c, e, item) ==
    [c EXCEPT !.LruList = PushFront(@, e),
              !.Items = Put(@, e, item),
              !.CacheMap[item.Collection] = Put(@, item.Key, e),
              !.CacheData[item.Collection] = Put(@, item.Key, item.Value)]

\* delete(m[collection], key), a no-op on a nil map
DeleteKey(m, collection, key) ==
    IF collection \in DOMAIN m THEN [m EXCEPT ![collection] = Drop(@, key)] ELSE m

\* len(cache.CacheMap[collection]) == 0
IsEmptyBucket(c, collection) ==
    collection \notin DOMAIN c.CacheMap \/ DOMAIN c.CacheMap[collection] = {}

\* the collection's buckets deleted if its bucket of CacheMap is empty
cleanedUp(c, collection) ==
    IF IsEmptyBucket(c, collection)
    THEN [c EXCEPT !.CacheMap = Drop(@, collection), !.CacheData = Drop(@, collection)]
    ELSE c

\* evictLRU for the element at the back, holding item
evicted(c, element, item) ==
    Collected(cleanedUp([c EXCEPT !.LruList = Remove(@, element),
                                  !.CacheMap = DeleteKey(@, item.Collection, item.Key),
                                  !.CacheData = DeleteKey(@, item.Collection, item.Key)],
                        item.Collection))

evictLRU(c) ==
    IF c.LruList = <<>> THEN c
    ELSE evicted(c, Back(c.LruList), c.Items[Back(c.LruList)])

\* set, the key found as element: moved to the front, its value replaced
replaced(c, element, collection, key, value) ==
    [c EXCEPT !.LruList = MoveToFront(@, element),
              !.Items[element].Value = value,
              !.CacheData[collection] = Put(@, key, value)]

keepAll(c) == c
\* set, the new element pushed: one eviction if the cache is over its size
evictIfOver(c) == IF totalItems(c) > c.MaxSize THEN evictLRU(c) ELSE c

\* set once the collection has its buckets
setIn(c, collection, key, value) ==
    IF key \in DOMAIN c.CacheMap[collection]
    THEN replaced(c, c.CacheMap[collection][key], collection, key, value)
    ELSE evictIfOver(pushed(c, NewElement(c), CacheItem(collection, key, value)))

set(c, collection, key, value) ==
    setIn(IF collection \in DOMAIN c.CacheMap THEN c ELSE withCollection(c, collection),
          collection, key, value)

\* get: the item found, its element moved to the front
get(c, collection, key) ==
    IF collection \notin DOMAIN c.CacheMap THEN [found |-> FALSE, cache |-> c]
    ELSE IF key \in DOMAIN c.CacheMap[collection]
    THEN [found |-> TRUE,
          item |-> c.Items[c.CacheMap[collection][key]],
          cache |-> [c EXCEPT !.LruList = MoveToFront(@, c.CacheMap[collection][key])]]
    ELSE [found |-> FALSE, cache |-> c]

InsertInCache(c, collection, key, value) == set(c, collection, key, value)

\* FindInCache: the value, or an error
FindInCache(c, collection, key) ==
    IF get(c, collection, key).found
    THEN [err |-> FALSE, value |-> get(c, collection, key).item.Value,
          cache |-> get(c, collection, key).cache]
    ELSE [err |-> TRUE, value |-> "", cache |-> c]

\* UpdateInCache: get, then set if the key was found
UpdateInCache(c, collection, key, value) ==
    IF get(c, collection, key).found
    THEN [err |-> FALSE, cache |-> set(get(c, collection, key).cache, collection, key, value)]
    ELSE [err |-> TRUE, cache |-> c]

\* DeleteFromCache, the key found as element
deleted(c, element, collection, key) ==
    Collected(cleanedUp([c EXCEPT !.LruList = Remove(@, element),
                                  !.CacheMap[collection] = Drop(@, key),
                                  !.CacheData = DeleteKey(@, collection, key)],
                        collection))

DeleteFromCache(c, collection, key) ==
    IF collection \notin DOMAIN c.CacheMap THEN [err |-> TRUE, cache |-> c]
    ELSE IF key \in DOMAIN c.CacheMap[collection]
    THEN [err |-> FALSE, cache |-> deleted(c, c.CacheMap[collection][key], collection, key)]
    ELSE [err |-> TRUE, cache |-> c]

RECURSIVE trim(_, _)
\* the loop of SetMaxSize: for totalItems > cache.MaxSize
trim(c, total) ==
    IF total > c.MaxSize THEN trim(evictLRU(c), total - 1) ELSE c

\* a SetMaxSize that evicts nothing
SetMaxSizeOnly(c, maxSize) == [c EXCEPT !.MaxSize = maxSize]

SetMaxSize(c, maxSize) ==
    trim([c EXCEPT !.MaxSize = maxSize], totalItems(c))

Clear(c) ==
    [c EXCEPT !.CacheMap = EmptyMap, !.CacheData = EmptyMap,
              !.LruList = <<>>, !.Items = EmptyMap]

\* the (collection, key) entries of cache.json
Loaded(data) ==
    UNION {{<<collection, key>> : key \in DOMAIN data[collection]} :
              collection \in DOMAIN data}

\* the orders in which the loops of LoadCacheFromMemory can come to the
\* entries: the collections in any order, the keys of a collection in any
\* order, one collection after the other
Orders(data) ==
    {order \in [1..Cardinality(Loaded(data)) -> Loaded(data)] :
        /\ \A i, j \in DOMAIN order : i # j => order[i] # order[j]
        /\ \A i, j, k \in DOMAIN order :
               i < j /\ j < k /\ order[i][1] = order[k][1] => order[j][1] = order[i][1]}

RECURSIVE loadItems(_, _, _)
\* the inner loop's body for the entries in the order given
loadItems(c, data, order) ==
    IF order = <<>> THEN c
    ELSE loadItems(pushed(c, NewElement(c),
                          CacheItem(Head(order)[1], Head(order)[2],
                                    decodeString(data[Head(order)[1]][Head(order)[2]]))),
                   data, Tail(order))

\* the buckets the outer loop makes, one pair for each collection
loadCollections(c, data) ==
    [c EXCEPT !.CacheMap = [collection \in DOMAIN data |-> EmptyMap],
              !.CacheData = [collection \in DOMAIN data |-> EmptyMap]]

LoadCacheFromMemory(file, order) ==
    loadItems(loadCollections(NewCache(decodeInt(file.max_size)), file.cache_data),
              file.cache_data, order)

\* ------------------------------------------------- a cache and its calls
\* The calls are made one at a time.  Next to the *Cache in hand (obj) the
\* state holds cache.json (file), the entries of the cache in the order of
\* their latest promotion, oldest first (promoted), the last call, and
\* what the last SaveCache that wrote cache.json has saved (saved).

\* calls per run
MaxCalls == 4
\* the greatest maxSize given
MaxMaxSize == 2

Collections == {"c1", "c2"}
Keys == {"k1", "k2"}
\* the values given: the two bytes of v" and a byte that is no UTF-8
Values == {<<118, 34>>, <<255>>}
MaxSizes == (-1)..MaxMaxSize

\* no cache.json
NoCacheFile == [missing |-> TRUE]

CacheCall(op, collection, key, err, gone, oldest) ==
    [op |-> op, collection |-> collection, key |-> key, err |-> err,
     gone |-> gone, oldest |-> oldest]

\* entry e promoted: it is the latest of p
Promote(p, e) == Append(SelectSeq(p, LAMBDA x : x # e), e)

\* the entries of p that cache c holds
Present(p, c) == SelectSeq(p, LAMBDA x : x \in Slots(c))

\* nothing saved so far
NoSaved == [MaxSize |-> 0, data |-> EmptyMap]

\* what a SaveCache that has written cache.json has saved of cache c:
\* MaxSize and the value of every entry
SavedOf(c) == [MaxSize |-> c.MaxSize, data |-> Snapshotted(c)]

\* the state after a call that left the cache as c
Called(s, c, file, promoted, call) ==
    [obj |-> c, file |-> file, promoted |-> Present(promoted, c),
     calls |-> s.calls + 1, last |-> call, saved |-> s.saved]

DoInsertInCache(collection, key, value) ==
    /\ cache.calls < MaxCalls
    /\ cache' = Called(cache, InsertInCache(cache.obj, collection, key, value),
                       cache.file, Promote(cache.promoted, <<collection, key>>),
                       CacheCall("Insert", collection, key, FALSE,
                                 (Slots(cache.obj) \cup {<<collection, key>>})
                                     \ Slots(InsertInCache(cache.obj, collection, key, value)),
                                 Head(Promote(cache.promoted, <<collection, key>>))))
    /\ UNCHANGED <<btreeVars, repo, codec, db>>

DoFindInCache(collection, key) ==
    /\ cache.calls < MaxCalls
    /\ cache' = Called(cache, FindInCache(cache.obj, collection, key).cache, cache.file,
                       IF <<collection, key>> \in Slots(cache.obj)
                       THEN Promote(cache.promoted, <<collection, key>>)
                       ELSE cache.promoted,
                       CacheCall("Find", collection, key,
                                 FindInCache(cache.obj, collection, key).err,
                                 {}, FindInCache(cache.obj, collection, key).value))
    /\ UNCHANGED <<btreeVars, repo, codec, db>>

DoUpdateInCache(collection, key, value) ==
    /\ cache.calls < MaxCalls
    /\ cache' = Called(cache, UpdateInCache(cache.obj, collection, key, value).cache,
                       cache.file,
                       IF <<collection, key>> \in Slots(cache.obj)
                       THEN Promote(cache.promoted, <<collection, key>>)
                       ELSE cache.promoted,
                       CacheCall("Update", collection, key,
                                 UpdateInCache(cache.obj, collection, key, value).err,
                                 Slots(cache.obj)
                                     \ Slots(UpdateInCache(cache.obj, collection, key, value).cache),
                                 value))
    /\ UNCHANGED <<btreeVars, repo, codec, db>>

DoDeleteFromCache(collection, key) ==
    /\ cache.calls < MaxCalls
    /\ cache' = Called(cache, DeleteFromCache(cache.obj, collection, key).cache,
                       cache.file, cache.promoted,
                       CacheCall("Delete", collection, key,
                                 DeleteFromCache(cache.obj, collection, key).err,
                                 Slots(cache.obj)
                                     \ Slots(DeleteFromCache(cache.obj, collection, key).cache),
                                 ""))
    /\ UNCHANGED <<btreeVars, repo, codec, db>>

DoAddCollection(collectionName, written) ==
    /\ cache.calls < MaxCalls
    /\ cache' = [Called(cache,
                        AddCollection(cache.obj, collectionName, written, cache.file).cache,
                        AddCollection(cache.obj, collectionName, written, cache.file).file,
                        cache.promoted,
                        CacheCall("AddCollection", collectionName, "",
                                  AddCollection(cache.obj, collectionName, written,
                                                cache.file).err,
                                  {}, ""))
                    EXCEPT !.saved =
                        IF written /\ collectionName \notin DOMAIN cache.obj.CacheMap
                        THEN SavedOf(withCollection(cache.obj, collectionName))
                        ELSE @]
    /\ UNCHANGED <<btreeVars, repo, codec, db>>

DoSaveCache(written) ==
    /\ cache.calls < MaxCalls
    /\ cache' = [Called(cache, SaveCache(cache.obj, written, cache.file).cache,
                        SaveCache(cache.obj, written, cache.file).file, cache.promoted,
                        CacheCall("SaveCache", "", "", ~written, {}, ""))
                    EXCEPT !.saved = IF written THEN SavedOf(cache.obj) ELSE @]
    /\ UNCHANGED <<btreeVars, repo, codec, db>>

\* a call of SetMaxSize(maxSize) on a cache whose entries were promoted in
\* the order before, which removed the entries gone
SizeCall(maxSize, gone, before) ==
    [op |-> "SetMaxSize", collection |-> "", key |-> "", err |-> FALSE, gone |-> gone,
     oldest |-> "", maxSize |-> maxSize, before |-> before]

DoSetMaxSize(maxSize) ==
    /\ cache.calls < MaxCalls
    /\ cache' = Called(cache, SetMaxSize(cache.obj, maxSize), cache.file, cache.promoted,
                       SizeCall(maxSize,
                                Slots(cache.obj) \ Slots(SetMaxSize(cache.obj, maxSize)),
                                cache.promoted))
    /\ UNCHANGED <<btreeVars, repo, codec, db>>

DoClear ==
    /\ cache.calls < MaxCalls
    /\ cache' = Called(cache, Clear(cache.obj), cache.file, cache.promoted,
                       CacheCall("Clear", "", "", FALSE, Slots(cache.obj), ""))
    /\ UNCHANGED <<btreeVars, repo, codec, db>>

\* the cache in hand from now on is the one loaded from cache.json
DoLoadCacheFromMemory(order) ==
    /\ cache.calls < MaxCalls
    /\ cache.file # NoCacheFile
    /\ cache' = Called(cache, LoadCacheFromMemory(cache.file, order), cache.file, order,
                       CacheCall("Load", "", "", FALSE, {}, ""))
    /\ UNCHANGED <<btreeVars, repo, codec, db>>

InitCache ==
    /\ BTreeUnused /\ repo = Unused /\ codec = Unused /\ db = Unused
    /\ \E maxSize \in MaxSizes :
          cache = [obj |-> NewCache(maxSize), file |-> NoCacheFile, promoted |-> <<>>,
                   calls |-> 0, last |-> CacheCall("NewCache", "", "", FALSE, {}, ""),
                   saved |-> NoSaved]

LoadOrders == IF cache.file = NoCacheFile THEN {} ELSE Orders(cache.file.cache_data)

NextCache ==
    \/ \E collection \in Collections, key \in Keys, value \in Values :
          DoInsertInCache(collection, key, value)
    \/ \E collection \in Collections, key \in Keys : DoFindInCache(collection, key)
    \/ \E collection \in Collections, key \in Keys, value \in Values :
          DoUpdateInCache(collection, key, value)
    \/ \E collection \in Collections, key \in Keys : DoDeleteFromCache(collection, key)
    \/ \E collectionName \in Collections, written \in BOOLEAN :
          DoAddCollection(collectionName, written)
    \/ \E written \in BOOLEAN : DoSaveCache(written)
    \/ \E maxSize \in MaxSizes : DoSetMaxSize(maxSize)
    \/ DoClear
    \/ \E order \in LoadOrders : DoLoadCacheFromMemory(order)

SpecCache == InitCache /\ [][NextCache]_vars

\* --------------------------------------- a cache called by several threads
\* A call runs its sections one after the other; a section takes the
\* cache's sync.RWMutex the way the code does, runs its body, and gives the
\* mutex back (the deferred unlock).  Sections of different threads
\* interleave as the mutex allows.  A body that runs while another thread
\* is inside a section, one of the two writing, is a data race: torn is
\* set, and what the cache then holds is not defined.

Threads == {1, 2}
\* calls per thread
MaxThreadCalls == 2

\* sync.RWMutex: the thread holding it for writing (0: none) and the
\* threads holding it for reading
NoLock == [writer |-> 0, readers |-> {}]
Lock(l, t) == [l EXCEPT !.writer = t]
Unlock(l, t) == [l EXCEPT !.writer = IF @ = t THEN 0 ELSE @]
RLock(l, t) == [l EXCEPT !.readers = @ \cup {t}]
RUnlock(l, t) == [l EXCEPT !.readers = @ \ {t}]
CanLock(l) == l.writer = 0 /\ l.readers = {}
CanRLock(l) == l.writer = 0

\* the sections of a call: get and set, the body of DeleteFromCache, the
\* check and bucket creation of AddCollection ("add"), and SaveCache
Sections(op) ==
    CASE op = "Find" -> <<"get">>
      [] op = "Insert" -> <<"set">>
      [] op = "Update" -> <<"get", "set">>
      [] op = "Delete" -> <<"delete">>
      [] op = "AddCollection" -> <<"add", "save">>

\* how a section takes the mutex: get calls cache.RLock(), AddCollection
\* reads and writes CacheMap and CacheData without taking it
LockMode(section) ==
    CASE section = "get" -> "RLock"
      [] section = "set" -> "Lock"
      [] section = "delete" -> "Lock"
      [] section = "add" -> "none"
      [] section = "save" -> "Lock"

\* whether the body of a section changes the recency list or the maps of
\* cache c: get moves the element found to the front, AddCollection makes
\* the buckets of a collection that has none
Writes(section, c, collection, key) ==
    CASE section = "get" -> get(c, collection, key).found
      [] section = "set" -> TRUE
      [] section = "delete" -> ~DeleteFromCache(c, collection, key).err
      [] section = "add" -> collection \notin DOMAIN c.CacheMap
      [] section = "save" -> TRUE

\* the body of a section: the cache, cache.json, and whether the call
\* goes on to its next section
Body(section, c, collection, key, value, written, file) ==
    CASE section = "get" ->
             [cache |-> get(c, collection, key).cache, file |-> file,
              goesOn |-> get(c, collection, key).found]
      [] section = "set" ->
             [cache |-> set(c, collection, key, value), file |-> file, goesOn |-> TRUE]
      [] section = "delete" ->
             [cache |-> DeleteFromCache(c, collection, key).cache, file |-> file,
              goesOn |-> TRUE]
      [] section = "add" ->
             [cache |-> IF collection \in DOMAIN c.CacheMap THEN c
                        ELSE withCollection(c, collection),
              file |-> file,
              goesOn |-> collection \notin DOMAIN c.CacheMap]
      [] section = "save" ->
             [cache |-> SaveCache(c, written, file).cache,
              file |-> SaveCache(c, written, file).file, goesOn |-> TRUE]

Idle(calls) ==
    [op |-> "none", collection |-> "", key |-> "", value |-> <<>>, at |-> 0,
     pc |-> "idle", calls |-> calls, created |-> FALSE]

\* the section thread t is in or waits for
SectionOf(t) == Sections(cache.threads[t].op)[cache.threads[t].at]

\* thread t is inside a section
Inside(t) == cache.threads[t].pc = "in"

\* thread t is inside a section whose body changes the list or the maps
Mutating(t) ==
    /\ Inside(t)
    /\ Writes(SectionOf(t), cache.obj, cache.threads[t].collection, cache.threads[t].key)

\* thread t calls op
DoCall(t, op, collection, key, value) ==
    /\ cache.threads[t].pc = "idle"
    /\ cache.threads[t].calls < MaxThreadCalls
    /\ cache' = [cache EXCEPT !.threads[t] =
                    [op |-> op, collection |-> collection, key |-> key, value |-> value,
                     at |-> 1, pc |-> "wait", calls |-> @.calls + 1, created |-> FALSE]]
    /\ UNCHANGED <<btreeVars, repo, codec, db>>

\* thread t takes the mutex as its section does, once the mutex allows
DoAcquire(t) ==
    /\ cache.threads[t].pc = "wait"
    /\ LockMode(SectionOf(t)) = "Lock" => CanLock(cache.lock)
    /\ LockMode(SectionOf(t)) = "RLock" => CanRLock(cache.lock)
    /\ cache' = [cache EXCEPT
                    !.lock = IF LockMode(SectionOf(t)) = "Lock" THEN Lock(@, t)
                             ELSE IF LockMode(SectionOf(t)) = "RLock" THEN RLock(@, t)
                             ELSE @,
                    !.threads[t].pc = "in"]
    /\ UNCHANGED <<btreeVars, repo, codec, db>>

\* the state after thread t has run the body of its section with result b
\* and has given the mutex back
Left(s, t, section, b, raced) ==
    [s EXCEPT
        !.obj = b.cache,
        !.file = b.file,
        !.torn = @ \/ raced,
        !.lock = RUnlock(Unlock(@, t), t),
        !.threads[t] =
            IF b.goesOn /\ s.threads[t].at < Len(Sections(s.threads[t].op))
            THEN [@ EXCEPT !.at = @ + 1, !.pc = "wait"]
            ELSE [Idle(@.calls) EXCEPT
                     !.op = s.threads[t].op,
                     !.collection = s.threads[t].collection,
                     !.key = s.threads[t].key,
                     !.created = /\ section = "set"
                                 /\ s.threads[t].op = "Update"
                                 /\ <<s.threads[t].collection, s.threads[t].key>>
                                        \notin Slots(s.obj)]]

\* thread t runs the body of its section and leaves it
DoSection(t, written) ==
    /\ Inside(t)
    /\ cache' = Left(cache, t, SectionOf(t),
                     Body(SectionOf(t), cache.obj, cache.threads[t].collection,
                          cache.threads[t].key, cache.threads[t].value, written,
                          cache.file),
                     \E u \in Threads \ {t} : Inside(u) /\ (Mutating(t) \/ Mutating(u)))
    /\ UNCHANGED <<btreeVars, repo, codec, db>>

ThreadOps == {"Find", "Insert", "Update", "Delete", "AddCollection"}

InitThreads ==
    /\ BTreeUnused /\ repo = Unused /\ codec = Unused /\ db = Unused
    /\ cache = [obj |-> NewCache(MaxMaxSize), file |-> NoCacheFile, torn |-> FALSE,
                lock |-> NoLock, threads |-> [t \in Threads |-> Idle(0)]]

NextThreads ==
    \/ \E t \in Threads, op \in ThreadOps, collection \in Collections, key \in Keys :
          DoCall(t, op, collection, key, <<118, 34>>)
    \/ \E t \in Threads : DoAcquire(t)
    \/ \E t \in Threads, written \in BOOLEAN : DoSection(t, written)

SpecThreads == InitThreads /\ [][NextThreads]_vars

\* ------------------------------------ a cache.json of more than max_size
\* The calls of a cache whose cache.json lists more entries than its
\* max_size allows: the file SaveCache wrote for a cache of that many
\* entries, with a smaller max_size put into it.

\* entries of the cache.json a run starts with
MaxEntries == 3

FileEntries == <<(<<"c1", "k1">>), (<<"c1", "k2">>), (<<"c2", "k1">>)>>

RECURSIVE Filled(_, _)
\* a cache of n entries: InsertInCache of the first n of FileEntries
Filled(c, n) ==
    IF n = 0 THEN c
    ELSE InsertInCache(Filled(c, n - 1), FileEntries[n][1], FileEntries[n][2], <<118, 34>>)

\* the cache.json of n entries with max_size m
FileOf(n, m) == [CacheFile(Filled(NewCache(n), n)) EXCEPT !.max_size = encodeInt(m)]

InitOversize ==
    /\ BTreeUnused /\ repo = Unused /\ codec = Unused /\ db = Unused
    /\ \E n \in 1..MaxEntries, m \in 0..MaxMaxSize :
          cache = [obj |-> NewCache(m), file |-> FileOf(n, m), promoted |-> <<>>,
                   calls |-> 0, last |-> CacheCall("NewCache", "", "", FALSE, {}, ""),
                   saved |-> NoSaved]

NextOversize ==
    \/ \E order \in LoadOrders : DoLoadCacheFromMemory(order)
    \/ \E collection \in Collections, key \in Keys, value \in Values :
          DoInsertInCache(collection, key, value)
    \/ \E collection \in Collections, key \in Keys : DoFindInCache(collection, key)
    \/ \E collection \in Collections, key \in Keys : DoDeleteFromCache(collection, key)

SpecOversize == InitOversize /\ [][NextOversize]_vars

\* ================================================================ Database
\* A database directory and the *Database in hand.  db holds manifest.json
\* (file: the collection names it lists), the Database's manifest
\* (manifest) and loaded collections (collections: name -> RootID and
\* NextID of the collection's BTree), and the page directory of every
\* collection that has one (trees: name -> node files and metadata.json).

\* calls per run
MaxDbCalls == 5
\* keys put into a collection
MaxDbKey == 6

Names == {"a", "b"}
DbKeys == 1..MaxDbKey
\* NewBTree refuses an order below this
MinOrder == 3
GivenOrders == {MinOrder - 1, Order}

\* the BTree of collection name as Database s holds it
TreeHandle(s, name) ==
    Handle(s.trees[name].disk, s.collections[name].root, s.collections[name].next,
           s.trees[name].meta)

\* Database s with BTree h for collection name: the page directory and the
\* loaded collection
WithTree(s, name, h) ==
    [s EXCEPT
        !.trees = [n \in DOMAIN @ \cup {name} |->
                      IF n = name THEN [disk |-> h.disk, meta |-> h.meta] ELSE @[n]],
        !.collections = [n \in DOMAIN @ \cup {name} |->
                            IF n = name THEN [root |-> h.root, next |-> h.next]
                            ELSE @[n]]]

\* SaveManifest: manifest.json becomes the manifest, unless the write fails
SaveManifest(s, written) == IF written THEN [s EXCEPT !.file = s.manifest] ELSE s

\* LoadManifest: the manifest becomes what manifest.json lists
LoadManifest(s) == [s EXCEPT !.manifest = s.file]

\* the page directory of collection name as NewBTree finds it
PagesOf(s, name) ==
    IF name \in DOMAIN s.trees THEN s.trees[name]
    ELSE [disk |-> NoFiles, meta |-> NoMeta]

\* CreateCollection past its check of the manifest
createNew(s, name, order, written) ==
    IF order < MinOrder THEN [db |-> s, err |-> TRUE]
    ELSE [db |-> SaveManifest(
                    [WithTree(s, name, NewBTree(PagesOf(s, name).disk,
                                                PagesOf(s, name).meta))
                        EXCEPT !.manifest = @ \cup {name}],
                    written),
          err |-> ~written]

\* a CreateCollection without the check of the manifest
CreateCollectionUnchecked(s, name, order, written) == createNew(s, name, order, written)

CreateCollection(s, name, order, written) ==
    IF name \in s.manifest THEN [db |-> s, err |-> TRUE]
    ELSE createNew(s, name, order, written)

GetCollection(s, name) ==
    IF name \in DOMAIN s.collections THEN [db |-> s, err |-> FALSE]
    ELSE IF name \notin s.manifest THEN [db |-> s, err |-> TRUE]
    ELSE IF name \notin DOMAIN s.trees THEN [db |-> s, err |-> TRUE]
    ELSE [db |-> WithTree(s, name, LoadBTree(s.trees[name].disk, s.trees[name].meta)),
          err |-> FALSE]

GetAllCollections(s) == LoadManifest(s)

RECURSIVE closeAll(_, _)
\* the loop of Database.Close over the loaded collections in names
closeAll(s, names) ==
    IF names = {} THEN s
    ELSE LET name == CHOOSE n \in names : TRUE IN
         closeAll(WithTree(s, name, Close(TreeHandle(s, name))), names \ {name})

CloseDatabase(s, written) == SaveManifest(closeAll(s, DOMAIN s.collections), written)

\* LoadDatabase: a Database with the manifest of manifest.json and no
\* collection loaded
LoadDatabase(s) == [s EXCEPT !.manifest = s.file, !.collections = NoFiles]

\* Collection.InsertKV: Insert on the collection's BTree
InsertKV(s, name, key, value) ==
    [db |-> WithTree(s, name, Insert(TreeHandle(s, name), key, value).s),
     st |-> Insert(TreeHandle(s, name), key, value).st]

DbCall(op, name, err, listed) == [op |-> op, name |-> name, err |-> err, listed |-> listed]

\* the state after a call that left the database as s
DbCalled(s, call) == [s EXCEPT !.calls = db.calls + 1, !.last = call]

DoCreateCollection(name, order, written) ==
    /\ db.calls < MaxDbCalls
    /\ db' = DbCalled(CreateCollection(db, name, order, written).db,
                      DbCall("CreateCollection", name,
                             CreateCollection(db, name, order, written).err,
                             name \in db.manifest))
    /\ UNCHANGED <<btreeVars, repo, codec, cache>>

DoGetCollection(name) ==
    /\ db.calls < MaxDbCalls
    /\ db' = DbCalled(GetCollection(db, name).db,
                      DbCall("GetCollection", name, GetCollection(db, name).err,
                             name \in db.manifest))
    /\ UNCHANGED <<btreeVars, repo, codec, cache>>

DoGetAllCollections ==
    /\ db.calls < MaxDbCalls
    /\ db' = DbCalled(GetAllCollections(db), DbCall("GetAllCollections", "", FALSE, FALSE))
    /\ UNCHANGED <<btreeVars, repo, codec, cache>>

DoInsertKV(name, key, value) ==
    /\ db.calls < MaxDbCalls
    /\ name \in DOMAIN db.collections
    /\ db' = DbCalled(InsertKV(db, name, key, value).db,
                      DbCall("InsertKV", name, InsertKV(db, name, key, value).st # "ok",
                             name \in db.manifest))
    /\ UNCHANGED <<btreeVars, repo, codec, cache>>

DoCloseDatabase(written) ==
    /\ db.calls < MaxDbCalls
    /\ db' = DbCalled(CloseDatabase(db, written), DbCall("Close", "", ~written, FALSE))
    /\ UNCHANGED <<btreeVars, repo, codec, cache>>

DoLoadDatabase ==
    /\ db.calls < MaxDbCalls
    /\ db' = DbCalled(LoadDatabase(db), DbCall("LoadDatabase", "", FALSE, FALSE))
    /\ UNCHANGED <<btreeVars, repo, codec, cache>>

\* NewDatabase on an empty directory
InitDb ==
    /\ BTreeUnused /\ repo = Unused /\ codec = Unused /\ cache = Unused
    /\ db = [file |-> {}, manifest |-> {}, collections |-> NoFiles, trees |-> NoFiles,
             calls |-> 0, last |-> DbCall("NewDatabase", "", FALSE, FALSE)]

NextDb ==
    \/ \E name \in Names, order \in GivenOrders, written \in BOOLEAN :
          DoCreateCollection(name, order, written)
    \/ \E name \in Names : DoGetCollection(name)
    \/ DoGetAllCollections
    \/ \E name \in Names, key \in DbKeys : DoInsertKV(name, key, 1)
    \/ \E written \in BOOLEAN : DoCloseDatabase(written)
    \/ DoLoadDatabase

SpecDb == InitDb /\ [][NextDb]_vars

\* ------------------------------------------- ensureMinKeys on its own
\* Insert and Delete on a tree the program has grown, and one call of
\* ensureMinKeys(node, index) for an internal node of the tree, which ends
\* the run.

EnsureSizes == {MidKeys, DeepKeys, WideKeys}

\* every child pointer of the tree names a node file
AllPresent ==
    \A id \in Reach(disk, RootID) : \A c \in Range(disk[id].children) : FileExists(disk, c)

\* the step of a call ensureMinKeys(disk[id], index) with result r
EnsureStep(id, index, r) ==
    /\ disk' = r.disk
    /\ isOpen' = (r.st # "panic")
    /\ last' = [op |-> "ensureMinKeys", key |-> index, res |-> TRUE, st |-> r.st,
                present |-> AllPresent, miss |-> NoMiss, node |-> r.node,
                had |-> Len(disk[disk[id].children[index + 1]].keys)]

DoEnsureMinKeys(id, index) ==
    /\ isOpen /\ budget > 0
    /\ id \in Reach(disk, RootID)
    /\ ~disk[id].isLeaf
    /\ index < Len(disk[id].children)
    /\ FileExists(disk, disk[id].children[index + 1])
    /\ EnsureStep(id, index, ensureMinKeys(disk, disk[id], index))
    /\ budget' = 0
    /\ beforeClose' = NoAnswers
    /\ UNCHANGED <<metaDisk, RootID, NextID, pathsAgree, stored, faults>>
    /\ UNCHANGED otherVars

InitEnsure == \E n \in EnsureSizes : InitWith(TreeOf(n), 1..(n + 1), n, MaxOps)

NextEnsure ==
    \/ \E k \in DOMAIN stored, v \in Vals : DoInsert(k, v)
    \/ \E k \in DOMAIN stored : DoDelete(k)
    \/ \E id \in DOMAIN disk, index \in 0..(2 * Order) : DoEnsureMinKeys(id, index)

SpecEnsure == InitEnsure /\ [][NextEnsure]_vars

\* ------------------------------------------- LoadBTree without a Close
\* Insert, Close and LoadBTree on a tree the program has grown, where a
\* LoadBTree can also come with no Close before it: the server keeps the
\* databases it has loaded and never closes them, so the process that
\* loads the directory next finds the metadata.json of the last
\* saveMetadata.

ReloadSizes == {LeafKeys, SmallKeys + 2, MidKeys + 2}

\* getDB and GetCollection in a process that follows one which did not
\* close: the new handle takes RootID and NextID from metadata.json, the
\* old one is gone
DoReload(agree) ==
    /\ isOpen
    /\ pathsAgree' = agree
    /\ LET s == LoadBTree(disk, metaDisk) IN
       /\ disk' = s.disk /\ metaDisk' = s.meta
       /\ RootID' = s.root /\ NextID' = s.next
    /\ isOpen' = TRUE
    /\ last' = Call("Reload", 0, TRUE, "ok", FALSE)
    /\ beforeClose' = NoAnswers
    /\ UNCHANGED <<stored, budget, faults>>
    /\ UNCHANGED otherVars

InitReload == \E n \in ReloadSizes : InitWith(TreeOf(n), 1..(n + 1), n, MaxOps)

NextReload ==
    \/ \E k \in DOMAIN stored, v \in Vals : DoInsert(k, v)
    \/ DoClose
    \/ \E agree \in BOOLEAN : DoReopen(agree)
    \/ \E agree \in BOOLEAN : DoReload(agree)

SpecReload == InitReload /\ [][NextReload]_vars

\* ---------------------------------------------------- splitChild on its own
\* Insert and Delete on a tree the program has grown, and one call of
\* splitChild(parent, index, child) for a full child of an internal node of
\* the tree, which ends the run.

SplitSizes == {SmallKeys + 2, MidKeys + 2, WideKeys}

\* the step of a call splitChild(disk[id], index, child) with result r
SplitStep(id, index, r) ==
    /\ Becomes(r.s, r.st)
    /\ last' = [op |-> "splitChild", key |-> index, res |-> TRUE, st |-> r.st,
                present |-> TRUE, miss |-> NoMiss, parent |-> disk[id],
                child |-> disk[disk[id].children[index + 1]], new |-> NextID]

\* splitChild as insertNonFull calls it: on a child that holds 2t-1 keys
DoSplitChild(id, index) ==
    /\ isOpen /\ budget > 0
    /\ id \in Reach(disk, RootID)
    /\ ~disk[id].isLeaf
    /\ index < Len(disk[id].children)
    /\ FileExists(disk, disk[id].children[index + 1])
    /\ Len(disk[disk[id].children[index + 1]].keys) = 2 * Order - 1
    /\ SplitStep(id, index, splitChild(Cur, disk[id], index, disk[disk[id].children[index + 1]]))
    /\ budget' = 0
    /\ beforeClose' = NoAnswers
    /\ UNCHANGED <<pathsAgree, stored, faults>>
    /\ UNCHANGED otherVars

InitSplit == \E n \in SplitSizes : InitWith(TreeOf(n), 1..(n + 1), n, MaxOps)

NextSplit ==
    \/ \E k \in DOMAIN stored, v \in Vals : DoInsert(k, v)
    \/ \E k \in DOMAIN stored : DoDelete(k)
    \/ \E id \in DOMAIN disk, index \in 0..(2 * Order) : DoSplitChild(id, index)

SpecSplit == InitSplit /\ [][NextSplit]_vars

\* ------------------------------------- a Database called by several threads
\* The server keeps one *Database for a directory and calls it from the
\* goroutines of its requests.  A call takes the Database's sync.RWMutex
\* the way the code does, runs, and gives the mutex back.

DbOps == {"CreateCollection", "GetCollection", "Close", "GetAllCollections"}

\* how a call takes db.lock: GetAllCollections and the LoadManifest it
\* calls do not take it
DbLockMode(op) ==
    CASE op = "CreateCollection" -> "Lock"
      [] op = "GetCollection" -> "Lock"
      [] op = "Close" -> "Lock"
      [] op = "GetAllCollections" -> "none"

\* whether the call writes the manifest or the collections map of
\* Database s: CreateCollection past its check, GetCollection when it loads
\* the collection, LoadManifest always
DbWrites(op, s, name) ==
    CASE op = "CreateCollection" -> name \notin s.manifest
      [] op = "GetCollection" ->
             /\ name \notin DOMAIN s.collections
             /\ ~GetCollection(s, name).err
      [] op = "Close" -> FALSE
      [] op = "GetAllCollections" -> TRUE

\* the Database after the call
DbBody(op, s, name) ==
    CASE op = "CreateCollection" -> CreateCollection(s, name, Order, TRUE).db
      [] op = "GetCollection" -> GetCollection(s, name).db
      [] op = "Close" -> CloseDatabase(s, TRUE)
      [] op = "GetAllCollections" -> GetAllCollections(s)

DbIdle(calls) == [op |-> "none", name |-> "", pc |-> "idle", calls |-> calls]

\* thread t is inside a call, past its taking of the mutex
DbInside(t) == db.threads[t].pc = "in"

\* thread t is inside a call that writes the manifest or the collections
DbMutating(t) ==
    /\ DbInside(t)
    /\ DbWrites(db.threads[t].op, db, db.threads[t].name)

\* thread t calls op
DoDbCall(t, op, name) ==
    /\ db.threads[t].pc = "idle"
    /\ db.threads[t].calls < MaxThreadCalls
    /\ db' = [db EXCEPT !.threads[t] =
                 [op |-> op, name |-> name, pc |-> "wait", calls |-> @.calls + 1]]
    /\ UNCHANGED <<btreeVars, repo, codec, cache>>

\* thread t takes the mutex as its call does, once the mutex allows
DoDbAcquire(t) ==
    /\ db.threads[t].pc = "wait"
    /\ DbLockMode(db.threads[t].op) = "Lock" => CanLock(db.lock)
    /\ db' = [db EXCEPT
                 !.lock = IF DbLockMode(db.threads[t].op) = "Lock" THEN Lock(@, t) ELSE @,
                 !.threads[t].pc = "in"]
    /\ UNCHANGED <<btreeVars, repo, codec, cache>>

\* thread t runs its call and gives the mutex back
DoDbReturn(t) ==
    /\ DbInside(t)
    /\ db' = [DbBody(db.threads[t].op, db, db.threads[t].name) EXCEPT
                 !.lock = Unlock(@, t),
                 !.calls = @ + 1,
                 !.last = DbCall(db.threads[t].op, db.threads[t].name, FALSE, FALSE),
                 !.threads[t] = DbIdle(@.calls)]
    /\ UNCHANGED <<btreeVars, repo, codec, cache>>

\* NewDatabase on an empty directory, in the hands of the threads
InitDbThreads ==
    /\ BTreeUnused /\ repo = Unused /\ codec = Unused /\ cache = Unused
    /\ db = [file |-> {}, manifest |-> {}, collections |-> NoFiles, trees |-> NoFiles,
             calls |-> 0, last |-> DbCall("NewDatabase", "", FALSE, FALSE),
             lock |-> NoLock, threads |-> [t \in Threads |-> DbIdle(0)]]

NextDbThreads ==
    \/ \E t \in Threads, op \in DbOps, name \in Names : DoDbCall(t, op, name)
    \/ \E t \in Threads : DoDbAcquire(t)
    \/ \E t \in Threads : DoDbReturn(t)

SpecDbThreads == InitDbThreads /\ [][NextDbThreads]_vars

\* ===================================== claims: snapshots, commit, restore
\* C11: an entry once recorded in the snapshot index is never removed or
\* altered: after any later commits, restores, init and NewDatabase calls
\* on the database, snapshots.json still holds it as it was recorded
C11_SnapshotsAppendOnly ==
    \A id \in DOMAIN repo.recorded :
        /\ repo.snapshots.file = "json"
        /\ id \in DOMAIN repo.snapshots.entries
        /\ repo.snapshots.entries[id] = repo.recorded[id]

\* the last call restored a commit of the working directory as it was
\* right before the call
RestoredUnchanged ==
    /\ repo.last.op \in {"restore", "restore-to"}
    /\ repo.last.commit \in DOMAIN repo.committed
    /\ repo.committed[repo.last.commit] = repo.last.before

\* C12: a commit and then a restore of it, the working directory unchanged
\* in between, leaves every file and directory that no ignore pattern
\* matches with the path and the bytes it had before the commit
C12_RestoreKeepsFiles ==
    RestoredUnchanged =>
        \A p \in DOMAIN repo.last.before :
            ~shouldIgnore(Join(p), loadGitignore(repo.last.before)) =>
                p \in DOMAIN repo.work /\ repo.work[p] = repo.last.before[p]

\* ================================================= claims: object store
\* the last call wrote a blob that reads back as it was written
BlobReadsBack(x) ==
    x.st = "ok" /\ x.kind = "blob" /\ x.content = repo.last.content

\* hashAndWriteBlob and then readObject of the id returned yield the
\* content written, for the contents of Contents (see C13)
BlobsReadBack ==
    repo.last.op = "hashAndWriteBlob" =>
        BlobReadsBack(readObject(repo.objects, repo.last.sha))

\* C15: writing the same blob content twice, at any two points of a
\* sequence of blob writes, returns the same object id both times, and so
\* leaves one object file at most that holds the content
C15_SameIdTwice ==
    \A content \in Contents : Cardinality(repo.returned[content]) <= 1

RECURSIVE deltasOf(_, _)
\* the deltas of the chain that ends in object sha, the innermost first
deltasOf(objects, sha) ==
    IF objects[sha].kind # "delta" THEN <<>>
    ELSE Append(deltasOf(objects, objects[sha].base), objects[sha].content)

RECURSIVE fullBaseOf(_, _)
\* the full object a chain of deltas starts from
fullBaseOf(objects, sha) ==
    IF objects[sha].kind # "delta" THEN objects[sha]
    ELSE fullBaseOf(objects, objects[sha].base)

RECURSIVE appliedInOrder(_, _)
\* the deltas applied one after the other, the first to content
appliedInOrder(content, deltas) ==
    IF deltas = <<>> THEN [st |-> "ok", out |-> content]
    ELSE IF applyDelta(content, Head(deltas)).st # "ok" THEN [st |-> "err", out |-> <<>>]
    ELSE appliedInOrder(applyDelta(content, Head(deltas)).out, Tail(deltas))

\* the delta objects whose base is a delta object
OnDelta(objects) ==
    {p \in DOMAIN objects :
        objects[p].kind = "delta" /\ objects[objects[p].base].kind = "delta"}

\* object p reads as x, its chain applied in order gives want
ReadsAs(p, x, want) ==
    /\ want.st = "ok"
    /\ x.st = "ok"
    /\ x.content = want.out
    /\ x.size = Len(want.out)
    /\ x.kind = fullBaseOf(repo.objects, p).kind

\* C16: readObject of a delta object whose base is a delta object returns
\* the content got by applying the deltas of the chain in order, beginning
\* with the content of the full object the chain ends in
C16_ChainReadsBack ==
    \A p \in OnDelta(repo.objects) :
        ReadsAs(p, readObject(repo.objects, p),
                appliedInOrder(fullBaseOf(repo.objects, p).content,
                               deltasOf(repo.objects, p)))

\* a delta object on a delta object on a delta object has been read
C16_ChainRead ==
    /\ repo.last.op = "readObject"
    /\ repo.last.sha \in OnDelta(repo.objects)
    /\ repo.objects[repo.last.sha].base \in OnDelta(repo.objects)
    /\ repo.last.content.st = "ok"
    /\ repo.last.content.content = Short

\* ==================================================== claims: delta codec
RECURSIVE resultLen(_)
\* the length of the result of operations
resultLen(ops) ==
    IF ops = <<>> THEN 0
    ELSE (IF Head(ops).IsCopy THEN Head(ops).Size ELSE Len(Head(ops).Data))
            + resultLen(Tail(ops))

\* C13: a content written with hashAndWriteBlob, read with readObject under
\* the id returned, comes back as it was written, be it stored as a full
\* blob or as a delta of a similar base
C13_BlobReadsBack ==
    codec.phase = "read" =>
        /\ codec.result.st = "ok"
        /\ codec.result.ops = stretchOperations(codec.offset, codec.size)

\* C14: for every base A and target T, applyDelta(A, computeDelta(A, T))
\* returns T and no error
C14_DeltaRoundTrip ==
    codec.phase = "applied" =>
        /\ codec.result.st = "ok"
        /\ resultLen(codec.result.ops) = codec.size
        /\ codec.result.ops = stretchOperations(codec.offset, codec.size)

\* applyDelta(A, computeDelta(A, T)) returns T and no error, for the bases
\* and targets of SpecDelta (see C14)
ShortRoundTrip ==
    (codec.phase = "applied" /\ ~codec.tampered /\ codec.against = codec.base) =>
        codec.result = [st |-> "ok", out |-> codec.target]

\* the target size a delta of HeaderLen bytes or more declares
DeclaredSize(delta) == Uint32(SubSeq(delta, 5, 8))

\* C17: applyDelta returns either an output as long as the target size the
\* delta declares or an error; on a malformed delta (a header under 8
\* bytes, a base size other than the base's, a command byte 0, a copy
\* beyond the base, operand bytes of an insert or a copy running past the
\* end of the delta) it returns an error, and never reads outside the
\* delta or the base
C17_ApplyDeltaTotal ==
    codec.phase = "applied" =>
        /\ codec.result.st \in {"ok", "err"}
        /\ codec.result.st = "ok" =>
               Len(codec.result.out) = DeclaredSize(codec.delta)
        /\ Len(codec.delta) < HeaderLen => codec.result.st = "err"
        /\ (Len(codec.delta) >= HeaderLen
                /\ Uint32(SubSeq(codec.delta, 1, 4)) # Len(codec.against)) =>
               codec.result.st = "err"

\* ------------------------------------------------------ claims: LRU cache

\* C18 as stated: whenever an Insert has returned, the entries of all
\* collections together are at most MaxSize.
C18_SizeAfterInsert ==
    cache.last.op = "Insert" => totalItems(cache.obj) <= cache.obj.MaxSize

\* C18: whenever an Insert has returned and MaxSize is not negative, the
\* entries of all collections together are at most MaxSize.
C18_SizeAfterInsertNonNegative ==
    (cache.last.op = "Insert" /\ cache.obj.MaxSize >= 0)
        => totalItems(cache.obj) <= cache.obj.MaxSize

\* an Insert into a full cache of two entries has evicted an entry
C18_InsertEvicted ==
    /\ cache.last.op = "Insert"
    /\ cache.last.gone # {}
    /\ cache.obj.MaxSize = 2
    /\ totalItems(cache.obj) = 2

\* C19: an entry that an Insert evicts is the one promoted longest ago
\* (by its insertion, by the replacement of its value, or by a Find that
\* found it) of the entries the cache held, the inserted one among them.
C19_EvictsLeastRecentlyPromoted ==
    (cache.last.op = "Insert" /\ cache.last.gone # {})
        => cache.last.gone = {cache.last.oldest}

\* an Insert has evicted an entry other than the first one inserted, which
\* a Find had promoted
C19_EvictedAfterFind ==
    /\ cache.last.op = "Insert"
    /\ cache.last.gone # {}
    /\ Len(cache.promoted) = 2
    /\ cache.promoted[2] = <<cache.last.collection, cache.last.key>>
    /\ cache.promoted[1] = <<"c1", "k1">>
    /\ cache.last.gone = {<<"c1", "k2">>}
    /\ cache.calls = 4

\* the slots of CacheMap that hold list element e
SlotsOf(c, e) == {s \in Slots(c) : c.CacheMap[s[1]][s[2]] = e}

\* C20: every element of the list is held by exactly one slot of the map,
\* every slot of the map holds an element of the list whose item has the
\* slot's collection and key, and the slots are as many as the elements.
C20_MapIndexesList ==
    /\ \A i \in 1..Len(cache.obj.LruList) :
           Cardinality(SlotsOf(cache.obj, cache.obj.LruList[i])) = 1
    /\ \A i, j \in 1..Len(cache.obj.LruList) :
           i # j => cache.obj.LruList[i] # cache.obj.LruList[j]
    /\ \A s \in Slots(cache.obj) :
           /\ cache.obj.CacheMap[s[1]][s[2]] \in Range(cache.obj.LruList)
           /\ cache.obj.Items[cache.obj.CacheMap[s[1]][s[2]]].Collection = s[1]
           /\ cache.obj.Items[cache.obj.CacheMap[s[1]][s[2]]].Key = s[2]
    /\ totalItems(cache.obj) = Len(cache.obj.LruList)

\* a cache of two entries in two collections has been loaded from
\* cache.json, the entry of collection c1 the last one pushed to the front
C20_LoadedTwo ==
    /\ cache.last.op = "Load"
    /\ Len(cache.obj.LruList) = 2
    /\ Cardinality(DOMAIN cache.obj.CacheMap) = 2
    /\ cache.obj.Items[Front(cache.obj.LruList)].Collection = "c1"
    /\ cache.file.cache_data["c1"] = [k \in {"k1"} |-> encodeString(<<118, 34>>)]
    /\ cache.promoted[2] = <<"c1", "k1">>

\* ----------------------------------------------- claims: cache and threads

\* C21: a thread that is inside a section whose body changes the recency
\* list or the maps holds the cache's mutex for writing, so that no other
\* thread is inside a section at that time.
C21_MutationsExclusive ==
    \A t \in Threads :
        Mutating(t) =>
            /\ cache.lock.writer = t
            /\ \A u \in Threads \ {t} : ~Inside(u)

\* ------------------------------------------------------- claims: B-tree

\* the keys the calls of a run have named
NamedKeys == DOMAIN stored

\* C22: FindAll lists no key twice, and it lists key k with value v exactly
\* when Find finds k with value v (here on a page directory whose node
\* files nodeExists can see).
C22_FindAllIsFind ==
    pathsAgree =>
    /\ NoDup(FindAll(disk, RootID).kvs)
    /\ \A k \in NamedKeys :
           Lookup(k).found <=>
               \E j \in 1..Len(FindAll(disk, RootID).kvs) :
                   FindAll(disk, RootID).kvs[j].key = k
    /\ \A j \in 1..Len(FindAll(disk, RootID).kvs) :
           /\ Lookup(FindAll(disk, RootID).kvs[j].key).found
           /\ Lookup(FindAll(disk, RootID).kvs[j].key).value
                  = FindAll(disk, RootID).kvs[j].value

\* key k is absent from the tree: no node of it holds k
Absent(k) == \A j \in 1..Len(Entries(disk, RootID)) : Entries(disk, RootID)[j].key # k

\* the step is a call of Update
UpdateCalled == last'.op = "Update" /\ budget' = budget - 1

\* C23: Update of a key that is absent from the tree returns false without
\* an error and leaves every node file as it was.
C23_UpdateAbsent ==
    [][(UpdateCalled /\ Absent(last'.key)) =>
           /\ last'.st = "ok"
           /\ ~last'.res
           /\ disk' = disk
           /\ metaDisk' = metaDisk]_vars

\* ------------------------------------------------------ claims: Database

\* the step is a call of CreateCollection with a name the manifest holds
DuplicateCreated ==
    /\ db'.calls = db.calls + 1
    /\ db'.last.op = "CreateCollection"
    /\ db'.last.name \in db.manifest

\* C24: CreateCollection with a name that the manifest holds returns an
\* error and leaves manifest.json, the manifest, the loaded collections and
\* the page directories of all collections as they were.
C24_DuplicateRejected ==
    [][DuplicateCreated =>
           /\ db'.last.err
           /\ db'.file = db.file
           /\ db'.manifest = db.manifest
           /\ db'.collections = db.collections
           /\ db'.trees = db.trees]_vars

\* CreateCollection has been refused for the name of a loaded collection
\* that holds keys
C24_RefusedLoaded ==
    /\ db.last.op = "CreateCollection"
    /\ db.last.listed /\ db.last.err
    /\ db.last.name \in DOMAIN db.collections
    /\ db.trees[db.last.name].disk[db.collections[db.last.name].root].keys # <<>>

\* ------------------------------------------------------- claims: restore

\* the step is a restore
RestoreCalled == repo'.last.op \in {"restore", "restore-to"}

\* path p of working directory work is .nutignore or matches an ignore
\* pattern of it
Protected(work, p) ==
    p = <<DotNutignore>> \/ shouldIgnore(Join(p), loadGitignore(work))

Min(a, b) == IF a < b THEN a ELSE b

\* the last n entries of sequence p
LastOf(p, n) == SubSeq(p, Len(p) - n + 1, Len(p))

\* C26: after SetMaxSize(n) with n not negative, MaxSize is n and the cache
\* holds the min(previous count, n) entries promoted most recently, in
\* their order.
C26_SetMaxSizeTrims ==
    (cache.last.op = "SetMaxSize" /\ cache.last.maxSize >= 0) =>
        /\ cache.obj.MaxSize = cache.last.maxSize
        /\ totalItems(cache.obj) = Min(Len(cache.last.before), cache.last.maxSize)
        /\ Slots(cache.obj)
               = Range(LastOf(cache.last.before, Min(Len(cache.last.before), cache.last.maxSize)))
        /\ cache.promoted
               = LastOf(cache.last.before, Min(Len(cache.last.before), cache.last.maxSize))
        /\ Len(cache.obj.LruList) = totalItems(cache.obj)
        /\ \A i \in 1..Len(cache.promoted) :
               /\ cache.obj.Items[cache.obj.LruList[i]].Collection
                      = cache.promoted[Len(cache.promoted) + 1 - i][1]
               /\ cache.obj.Items[cache.obj.LruList[i]].Key
                      = cache.promoted[Len(cache.promoted) + 1 - i][2]

\* SetMaxSize(1) as the fourth call, on a cache of two entries in two
\* collections, has evicted one entry and kept the one promoted last
C26_KeptPromoted ==
    /\ cache.last.op = "SetMaxSize"
    /\ cache.last.maxSize = 1
    /\ cache.calls = 4
    /\ cache.last.before = <<(<<"c1", "k2">>), (<<"c2", "k1">>)>>
    /\ Slots(cache.obj) = {<<"c2", "k1">>}

\* ---------------------------------------------- claims: cache, cache.json

\* every element of the list of cache c is held by exactly one slot of its
\* map, and every slot holds an element of the list with the slot's
\* collection and key
MapMatchesList(c) ==
    /\ totalItems(c) = Len(c.LruList)
    /\ \A s \in Slots(c) :
           /\ c.CacheMap[s[1]][s[2]] \in Range(c.LruList)
           /\ c.Items[c.CacheMap[s[1]][s[2]]].Collection = s[1]
           /\ c.Items[c.CacheMap[s[1]][s[2]]].Key = s[2]
    /\ \A s, u \in Slots(c) : c.CacheMap[s[1]][s[2]] = c.CacheMap[u[1]][u[2]] => s = u

\* the cache loaded is the cache saved: MaxSize, collections, keys, values
LoadedIsSaved ==
    /\ cache.obj.MaxSize = cache.saved.MaxSize
    /\ Snapshotted(cache.obj) = cache.saved.data
    /\ MapMatchesList(cache.obj)

\* every value saved is valid UTF-8
SavedValid ==
    \A collection \in DOMAIN cache.saved.data :
        \A key \in DOMAIN cache.saved.data[collection] :
            ValidUTF8(cache.saved.data[collection][key])

C28_NodeExistsSeesFile ==
    isOpen => \A id \in 1..NextID : nodeExists(disk, id) <=> FileExists(disk, id)

\* C29: after ensureMinKeys(node, index) has returned without error on a
\* tree whose node files are all present (and which nodeExists can see),
\* the child at index of the node holds at least Order keys.
C29_ChildHasMinKeys ==
    (last.op = "ensureMinKeys" /\ last.st = "ok" /\ last.present /\ pathsAgree) =>
        /\ last.key < Len(last.node.children)
        /\ FileExists(disk, last.node.children[last.key + 1])
        /\ Len(disk[last.node.children[last.key + 1]].keys) >= Order

\* C30: the id that allocateNodeID returns next names no node of the tree:
\* every node file has an id below NextID, after LoadBTree too.
C30_NextIDIsFresh ==
    isOpen => \A id \in DOMAIN disk : id < NextID

\* ------------------------------------------------ claims: B-tree, the root

\* the root of the open tree is a node file, and not an internal node
\* without keys
RootOK ==
    /\ FileExists(disk, RootID)
    /\ ~(~disk[RootID].isLeaf /\ Len(disk[RootID].keys) = 0)

\* C31: after every Delete, RootID names a node file and the root is not an
\* internal node without keys: a Delete that leaves such a root makes its
\* child the root.
C31_RootAfterDelete == last.op = "Delete" => RootOK

\* the step is a call of RepairTree on a tree whose root file is missing
RepairedRootless ==
    /\ last'.op = "RepairTree" /\ budget' = budget - 1
    /\ ~FileExists(disk, RootID)

\* C32: RepairTree on a tree whose root file is missing writes an empty
\* leaf under RootID and returns without error.
C32_RepairMakesRoot ==
    [][RepairedRootless =>
           /\ last'.st = "ok"
           /\ RootID' = RootID
           /\ FileExists(disk', RootID)
           /\ disk'[RootID] = MkNode(RootID, TRUE, <<>>, <<>>)]_vars

\* ----------------------------------------------- claims: B-tree, splitChild

\* C33: after splitChild(parent, i, child) on a child of 2t-1 keys, the
\* child holds its first t-1 keys and the new node its last t-1, the
\* parent holds the child's former key at index t-1 at position i and the
\* new node's id at child position i+1, and an internal child has kept its
\* first t child pointers and given its last t to the new node.
C33_SplitHalves ==
    last.op = "splitChild" =>
        /\ last.st = "ok"
        /\ disk[last.child.id].keys = SliceTo(last.child.keys, Order - 1)
        /\ disk[last.new].keys = SliceFrom(last.child.keys, Order)
        /\ Len(disk[last.child.id].keys) = Order - 1
        /\ Len(disk[last.new].keys) = Order - 1
        /\ disk[last.parent.id].keys
               = InsertAt(last.parent.keys, last.key, last.child.keys[Order])
        /\ disk[last.parent.id].children
               = InsertAt(last.parent.children, last.key + 1, last.new)
        /\ disk[last.new].isLeaf = last.child.isLeaf
        /\ ~last.child.isLeaf =>
               /\ disk[last.child.id].children = SliceTo(last.child.children, Order)
               /\ disk[last.new].children = SliceFrom(last.child.children, Order)
               /\ Len(disk[last.new].children) = Order

\* splitChild has split an internal child of the root that is not its
\* first child
C33_SplitInternal ==
    /\ last.op = "splitChild"
    /\ ~last.child.isLeaf
    /\ last.key > 0
    /\ last.parent.id = RootID

\* ----------------------------------------------- claims: cache and threads

\* C34: no Update creates an entry: the write of an Update never takes
\* effect on a cache that does not hold the entry.
C34_UpdateNeverCreates == \A t \in Threads : ~cache.threads[t].created

\* ------------------------------------------------ claims: cache, eviction

\* the step is an Insert of an entry the cache does not hold
InsertedNew ==
    /\ cache'.calls = cache.calls + 1
    /\ cache'.last.op = "Insert"
    /\ <<cache'.last.collection, cache'.last.key>> \notin Slots(cache.obj)

\* C35: after an Insert that adds an entry to a cache whose MaxSize is not
\* negative, the entries of all collections together are at most MaxSize,
\* also when the cache held more than MaxSize entries before the call.
C35_InsertEvictsToMaxSize ==
    [][(InsertedNew /\ cache.obj.MaxSize >= 0)
           => totalItems(cache'.obj) <= cache'.obj.MaxSize]_vars

\* ------------------------------------------------------ claims: commit-all

RECURSIVE Referenced(_, _)
\* the objects that object sha references: itself, the tree of a commit,
\* the entries of a tree, and what these reference
Referenced(objects, sha) ==
    {sha} \cup
    IF sha \notin DOMAIN objects THEN {}
    ELSE IF objects[sha].kind = "commit" THEN Referenced(objects, objects[sha].content.tree)
    ELSE IF objects[sha].kind = "tree"
    THEN UNION {Referenced(objects, objects[sha].content[j].sha) :
                   j \in 1..Len(objects[sha].content)}
    ELSE {}

\* object r was written before write i of the last commit-all: by a write
\* of that commit-all, or it was in the store, whole, when the commit began
WrittenBefore(r, i) ==
    \/ \E j \in 1..(i - 1) : repo.last.log[j] = Wrote("object", r)
    \/ r \in DOMAIN repo.last.objects /\ repo.last.objects[r].kind # "cut"

\* write i of the last commit-all wrote a commit object
WroteCommit(i) ==
    /\ repo.last.log[i].what = "object"
    /\ repo.objects[repo.last.log[i].sha].kind = "commit"

\* C36: in a commit-all the snapshot entry is written after the commit
\* object, and the commit object after every tree and blob it references;
\* a commit-all that fails, or has an empty message, adds no snapshot entry.
C36_CommitWritesInOrder ==
    repo.last.op = "commit-all" =>
        /\ \A i \in 1..Len(repo.last.log) :
               repo.last.log[i].what = "snapshot" =>
                   \E j \in 1..(i - 1) :
                       repo.last.log[j] = Wrote("object", repo.last.log[i].sha) /\ WroteCommit(j)
        /\ \A i \in 1..Len(repo.last.log) :
               WroteCommit(i) =>
                   \A r \in Referenced(repo.objects, repo.last.log[i].sha) \ {repo.last.log[i].sha} :
                       WrittenBefore(r, i)
        /\ repo.last.st # "ok" =>
               /\ DOMAIN readSnapshots(repo.snapshots) \subseteq DOMAIN readSnapshots(repo.last.snapshots)
               /\ \A i \in 1..Len(repo.last.log) : repo.last.log[i].what # "snapshot"

\* -------------------------------------------- claims: Database and threads

\* C37: a thread that is inside a call which writes the manifest or the
\* collections map of the Database holds the Database's mutex for writing,
\* and no other thread is inside a call at that time.
C37_DbWritesExclusive ==
    \A t \in Threads :
        DbMutating(t) =>
            /\ db.lock.writer = t
            /\ \A u \in Threads \ {t} : ~DbInside(u)

\* ------------------------------------------------------ claims: readObject

\* C38: every call of readObject ends, by returning the object or by
\* exiting with an error, whatever the object directory holds.
C38_ReadObjectEnds ==
    (repo.last.pc = "reading") ~> (repo.last.pc \in {"returned", "exit", "panic"})

\* ------------------------------------------------ claims: delta threshold

\* the step is a hashAndWriteBlob of a content that is not stored as a blob
\* and for which findSimilarObject finds a base
WroteWithBase ==
    /\ repo'.last.op = "hashAndWriteBlob"
    /\ repo'.writes = repo.writes + 1
    /\ sha1Sum(BlobObject(repo'.last.content)) \notin DOMAIN repo.objects
    /\ candidates(repo.objects, repo'.last.content) # {}

\* what hashAndWriteBlob is to return for the content with base b: the id
\* of the delta if ten times its length is below nine times the content's,
\* the id of the full blob otherwise
Expected(objects, b, content) ==
    IF 10 * Len(computeDelta(objects[b].content, content)) < 9 * Len(content)
    THEN sha1Sum(DeltaObject(b, computeDelta(objects[b].content, content)))
    ELSE sha1Sum(BlobObject(content))

\* C39: once a base is found, the blob is stored as a delta D of it exactly
\* when 10*|D| < 9*|content|, and as a full blob otherwise.
C39_DeltaExactlyWhenSmaller ==
    [][WroteWithBase =>
           /\ repo'.last.sha \in
                  {Expected(repo.objects, b, repo'.last.content) :
                      b \in findSimilarObject(repo.objects, repo'.last.content)}
           /\ repo'.last.sha \in DOMAIN repo'.objects]_vars
====
